---------------------------- MODULE Spec2Model ----------------------------
(***************************************************************************)
(* Resilient client and deadline scheduling engine of the trading bot:     *)
(*   - IQHandler (src/api/iq_handler.py): session lock, reconnect paths,   *)
(*     in-flight registry of candle fetches, bounded worker threads;       *)
(*   - MultiProviderAI (src/utils/multi_provider_ai.py): provider pool;    *)
(*   - run_trading_session.worker (src/main.py): candle scheduler.         *)
(* Each subsystem has its own specification over the shared variables.     *)
(***************************************************************************)
EXTENDS Integers, Sequences, FiniteSets, TLC

\* ------------------------------------------------------------------ bounds
MaxWorkers == 2

\* ------------------------------------------------------- program constants
EC_MAX_ATTEMPTS == 3
EQ_ATTEMPTS == 2
CONNECT_MAX_RETRIES == 4
FETCH_ATTEMPTS == 2

VARIABLES
    api,               \* self.api: "none" | "up" | "halfopen" | "down"
    lock,              \* holder of self._lock, or "none"
    heartbeat,         \* TRUE once _start_heartbeat has started a heartbeat loop
    candles_inflight,  \* self._candles_inflight
    server_ts_inflight,\* self._server_ts_inflight
    server_ts_thread,  \* self._server_ts_thread: the last timestamp worker, or "none"
    server_ts_cache,   \* age of self._server_ts_cache: "none" | "fresh" | "recent" | "stale"
    pc,                \* position of every thread
    stack,             \* return labels of the calls a thread is inside
    loc,               \* locals of every thread
    out,               \* value last returned to a thread by a top-level call
    \* utils/multi_provider_ai.py (MultiProviderAI)
    now,                \* time.time(), in whole seconds
    providers,          \* self.providers: name -> ProviderConfig
    cache,              \* self.cache: "<pair>_<signal>" -> AnalysisCache, or "none"
    last_analysis_time, \* self.last_analysis_time
    current_provider,   \* self._current_provider
    requests,           \* number of analyze_signal calls made so far
    ai_pc,              \* position of the thread inside analyze_signal
    ai_loc,             \* locals of analyze_signal
    ai_out,             \* (confirm, confidence, reason) last returned by analyze_signal
    \* main.py (run_trading_session.worker)
    stime,                    \* the broker's clock, in whole seconds
    sch_pc,                   \* position of the worker thread
    sch_loc,                  \* locals of one loop iteration
    last_candle_traded,       \* candle_start of the last candle marked as traded
    cached_signal,            \* the held candidate: a pair, or "none"
    failed_pairs_this_candle, \* the per-candle blacklist
    current_profit,           \* accumulated session profit
    pair_cooldown,            \* smart_trader._pair_cooldown: pair -> candles (0: no key)
    \* api/iq_handler.py (_start_heartbeat, close)
    hb_stop,                  \* self._hb_stop: the Event object now in the attribute
    hb_set,                   \* the Event objects on which set() was called
    hb_pc,                    \* position of every heartbeat loop thread
    hb_ref,                   \* the Event a loop has read from self._hb_stop
    hb_born,                  \* the Event created by the _start_heartbeat of a loop
    closed,                   \* close() has been called
    rc_pc,                    \* the trading thread: "idle" | "reconnect"
    fired,                    \* history: candle_start -> outcomes of the fires made for it
    signal_candle,            \* history: the candle (of the broker's clock) in which the held candidate was returned
    failed_in,                \* history: pair -> current_candle of the fire that blacklisted it
    \* utils/smart_trader.py (SmartTrader.execute_trade, _execute_martingale)
    gale_pc,           \* position of the thread between the first order and the return
    level,             \* loop variable of "for level in range(cfg.martingale_levels)"
    target,            \* target of the wait for the turn of the candle, 0 when not waiting
    gtime,             \* the broker's clock minus whole candles, in whole seconds
    results,           \* history: results of the settled orders of this execute_trade
    placed             \* history: gale orders opened by this execute_trade

tsVars == <<server_ts_inflight, server_ts_thread, server_ts_cache>>
iqVars == <<api, lock, heartbeat, candles_inflight, tsVars, pc, stack, loc, out>>
aiVars == <<now, providers, cache, last_analysis_time, current_provider, requests,
           ai_pc, ai_loc, ai_out>>
schVars == <<stime, sch_pc, sch_loc, last_candle_traded, cached_signal,
            failed_pairs_this_candle, current_profit, fired, signal_candle, failed_in,
            pair_cooldown>>
galeVars == <<gale_pc, level, target, gtime, results, placed>>
hbVars == <<hb_stop, hb_set, hb_pc, hb_ref, hb_born, closed, rc_pc>>
vars == <<iqVars, aiVars, schVars, galeVars, hbVars>>
notIQ == <<aiVars, schVars, galeVars, hbVars>>
notAI == <<iqVars, schVars, galeVars, hbVars>>
notSch == <<iqVars, aiVars, galeVars, hbVars>>
notGale == <<iqVars, aiVars, schVars, hbVars>>
notHb == <<aiVars, schVars, galeVars>>

\* ----------------------------------------------------------------- threads
WName == <<"w1", "w2", "w3", "w4", "w5", "w6">>
WorkerIds == {WName[i] : i \in 1..MaxWorkers}
CallerIds == {"c1", "c2"}
Threads == CallerIds \cup {"hb", "tr", "boot"} \cup WorkerIds
CandlePairs == {"EURUSD"}

NoLoc == [pair |-> "none", quick |-> FALSE, attempt |-> 0, cattempt |-> 0, oattempt |-> 0,
          ret |-> FALSE, kid |-> "none", kind |-> "none", abandoned |-> FALSE,
          res |-> "none", wait |-> 0, busy0 |-> FALSE]

\* threading.Thread.is_alive()
Alive(w) == pc[w] \notin {"free", "done"}

\* lowest free worker slot (a new threading.Thread object)
FreeWorkers == {i \in 1..MaxWorkers : pc[WName[i]] = "free"}
NewWorker == WName[CHOOSE i \in FreeWorkers : \A j \in FreeWorkers : i <= j]

\* a started worker whose first statement finds no session ("if not self.api:
\* return" in the timestamp worker, AttributeError on self.api.buy in the order
\* worker) is over at once; otherwise it is inside the broker call
WorkerStart(incall) == IF api = "none" THEN "done" ELSE incall

\* return from the innermost call of thread t with value v
Return(t, v, l) ==
    /\ pc' = [pc EXCEPT ![t] = IF stack[t] = <<>> THEN "idle" ELSE Head(stack[t])]
    /\ stack' = [stack EXCEPT ![t] = IF stack[t] = <<>> THEN <<>> ELSE Tail(stack[t])]
    /\ loc' = [loc EXCEPT ![t] = [l EXCEPT !.ret = v, !.cattempt = 0, !.wait = 0]]

\* call of a method: continue at label "to", come back at label "back"
Call(t, to, back) ==
    /\ pc' = [pc EXCEPT ![t] = to]
    /\ stack' = [stack EXCEPT ![t] = <<back>> \o stack[t]]

\* the end of a thread's target function
ThreadEnd(w, l) ==
    /\ pc' = [pc EXCEPT ![w] = IF l.abandoned THEN "free" ELSE "done"]
    /\ loc' = [loc EXCEPT ![w] = IF l.abandoned THEN NoLoc
                                                 ELSE [NoLoc EXCEPT !.res = l.res]]
    /\ stack' = [stack EXCEPT ![w] = <<>>]

\* ------------------------------------------------------ the broker session
\* The remote side drops the session: a half-open socket still answers
\* check_connect() but serves no real call; a down socket fails the probe.
SessionDrops ==
    /\ api = "up"
    /\ api' \in {"halfopen", "down"}
    /\ UNCHANGED <<lock, heartbeat, candles_inflight, tsVars, pc, stack, loc, out>>
    /\ UNCHANGED notIQ

\* _start_heartbeat
StartHeartbeat == heartbeat' = TRUE

\* outcomes of creating and validating a fresh session
CreateOutcomes == {"ok", "connect_fail", "change_balance_fail", "balance_fail", "exception"}

\* ------------------------------------------------- IQHandler._ensure_connected
\* "with self._lock:" of _ensure_connected: blocks while another thread holds it
EcAcquire(t) ==
    /\ lock = "none"
    /\ lock' = t

\* (mutant) the same wait before every attempt
BackoffWaitFlat(attempt) == 5

\* "wait_time = 5 * (attempt + 1)"
BackoffWait(attempt) == 5 * (attempt + 1)

EcEnter(t) ==
    /\ pc[t] = "ec_enter"
    /\ EcAcquire(t)
    /\ pc' = [pc EXCEPT ![t] = "ec_check"]
    /\ loc' = [loc EXCEPT ![t].cattempt = 0, ![t].wait = 0]
    /\ UNCHANGED <<api, heartbeat, candles_inflight, tsVars, stack, out>>
    /\ UNCHANGED notIQ

\* (mutant) the probe of the existing session is never trusted
EcSessionGoodNever == FALSE

\* "if self.api: if self.api.check_connect(): _ = self.api.get_balance()" went
\* through without an exception
EcSessionGood == api = "up"

\* one attempt, first half: probe the existing session; a live session whose
\* secondary read succeeds ends the call, anything else tears the session down
\* and starts the backoff sleep of 5 * (attempt + 1) seconds
EcCheck(t) ==
    /\ pc[t] = "ec_check"
    /\ IF EcSessionGood
       THEN /\ Return(t, TRUE, loc[t])
            /\ lock' = "none"
            /\ UNCHANGED <<api, heartbeat, candles_inflight, tsVars, out>>
       ELSE /\ api' = "none"
            /\ pc' = [pc EXCEPT ![t] = "ec_sleep"]
            /\ loc' = [loc EXCEPT ![t].wait = BackoffWait(loc[t].cattempt)]
            /\ UNCHANGED <<lock, heartbeat, candles_inflight, tsVars, stack, out>>
    /\ UNCHANGED notIQ

\* (mutant) one attempt more than max_attempts
EcMoreAttemptsOneMore(attempt) == attempt < EC_MAX_ATTEMPTS

\* "for attempt in range(max_attempts)": another attempt follows this one
EcMoreAttempts(attempt) == attempt + 1 < EC_MAX_ATTEMPTS

\* (mutant) the fresh session is reported without looking at the secondary read
EcValidatedUnread(o) == o \in {"ok", "balance_fail"}

\* connect() gave check, change_balance() and then "_ = self.api.get_balance()"
\* raised nothing
EcValidated(o) == o = "ok"

\* one attempt, second half: after the sleep create a fresh session, connect,
\* switch the account and validate with the secondary read
EcCreate(t) ==
    /\ pc[t] = "ec_sleep"
    /\ \E o \in CreateOutcomes :
        IF EcValidated(o)
        THEN /\ api' = IF o = "balance_fail" THEN "halfopen" ELSE "up"
             /\ StartHeartbeat
             /\ Return(t, TRUE, loc[t])
             /\ lock' = "none"
             /\ UNCHANGED <<candles_inflight, tsVars, out>>
        ELSE /\ api' = CASE o = "connect_fail" -> "down"
                          [] o = "change_balance_fail" -> "up"
                          [] OTHER -> "none"
             /\ IF EcMoreAttempts(loc[t].cattempt)
                THEN /\ pc' = [pc EXCEPT ![t] = "ec_check"]
                     /\ loc' = [loc EXCEPT ![t].cattempt = loc[t].cattempt + 1]
                     /\ UNCHANGED <<lock, stack>>
                ELSE /\ Return(t, FALSE, loc[t])
                     /\ lock' = "none"
             /\ UNCHANGED <<heartbeat, candles_inflight, tsVars, out>>
    /\ UNCHANGED notIQ

EnsureConnected(t) == EcEnter(t) \/ EcCheck(t) \/ EcCreate(t)

\* -------------------------------------------- IQHandler._ensure_connected_quick
\* (mutant) the quick path enters its reconnect section without waiting
EqAcquireNoWait(t) == lock' = t

\* "with self._lock:" of _ensure_connected_quick
EqAcquire(t) ==
    /\ lock = "none"
    /\ lock' = t

\* step 1: a session that is alive and serves the secondary read needs no lock
EqEnter(t) ==
    /\ pc[t] = "eq_enter"
    /\ IF api = "up"
       THEN /\ Return(t, TRUE, loc[t])
       ELSE /\ pc' = [pc EXCEPT ![t] = "eq_lock"]
            /\ UNCHANGED <<stack, loc>>
    /\ UNCHANGED <<api, lock, heartbeat, candles_inflight, tsVars, out>>
    /\ UNCHANGED notIQ

EqLock(t) ==
    /\ pc[t] = "eq_lock"
    /\ EqAcquire(t)
    /\ pc' = [pc EXCEPT ![t] = "eq_try"]
    /\ loc' = [loc EXCEPT ![t].cattempt = 0]
    /\ UNCHANGED <<api, heartbeat, candles_inflight, tsVars, stack, out>>
    /\ UNCHANGED notIQ

\* step 2: one quick attempt; the deadline is looked at only at the top of
\* the loop; a failed attempt sleeps 0.5 s
EqTry(t) ==
    /\ pc[t] = "eq_try"
    /\ \/ /\ Return(t, FALSE, loc[t])          \* time.time() >= deadline
          /\ lock' = "none"
          /\ UNCHANGED <<api, heartbeat, candles_inflight, tsVars, out>>
       \/ \E o \in CreateOutcomes :
            IF o = "ok"
            THEN /\ api' = "up"
                 /\ Return(t, TRUE, loc[t])
                 /\ lock' = "none"
                 /\ UNCHANGED <<heartbeat, candles_inflight, tsVars, out>>
            ELSE /\ api' = CASE o = "connect_fail" -> "down"
                              [] o = "change_balance_fail" -> "up"
                              [] o = "balance_fail" -> "halfopen"
                              [] OTHER -> "down"
                 /\ IF loc[t].cattempt + 1 < EQ_ATTEMPTS
                    THEN /\ pc' = [pc EXCEPT ![t] = "eq_try"]
                         /\ loc' = [loc EXCEPT ![t].cattempt = loc[t].cattempt + 1]
                         /\ UNCHANGED <<lock, stack>>
                    ELSE /\ Return(t, FALSE, loc[t])
                         /\ lock' = "none"
                 /\ UNCHANGED <<heartbeat, candles_inflight, tsVars, out>>
    /\ UNCHANGED notIQ

EnsureConnectedQuick(t) == EqEnter(t) \/ EqLock(t) \/ EqTry(t)

\* ------------------------------------------------------------ IQHandler.connect
\* "with self._lock:" of connect
CnAcquire(t) ==
    /\ lock = "none"
    /\ lock' = t

CnEnter(t) ==
    /\ pc[t] = "cn_enter"
    /\ CnAcquire(t)
    /\ pc' = [pc EXCEPT ![t] = "cn_try"]
    /\ loc' = [loc EXCEPT ![t].cattempt = 0]
    /\ UNCHANGED <<api, heartbeat, candles_inflight, tsVars, stack, out>>
    /\ UNCHANGED notIQ

\* (mutant) one attempt more than max_retries
CnMoreAttemptsOneMore(attempt) == attempt < CONNECT_MAX_RETRIES

\* "for attempt in range(max_retries)": another attempt follows this one
CnMoreAttempts(attempt) == attempt + 1 < CONNECT_MAX_RETRIES

\* one attempt: close the previous session, open a fresh one, switch account
CnTry(t) ==
    /\ pc[t] = "cn_try"
    /\ \E o \in {"ok", "connect_fail", "change_balance_fail", "exception"} :
        IF o = "ok"
        THEN /\ api' = "up"
             /\ StartHeartbeat
             /\ Return(t, TRUE, loc[t])
             /\ lock' = "none"
             /\ UNCHANGED <<candles_inflight, tsVars, out>>
        ELSE /\ api' = IF o = "change_balance_fail" THEN "up" ELSE "down"
             /\ IF CnMoreAttempts(loc[t].cattempt)
                THEN /\ pc' = [pc EXCEPT ![t] = "cn_try"]
                     /\ loc' = [loc EXCEPT ![t].cattempt = loc[t].cattempt + 1]
                     /\ UNCHANGED <<lock, stack>>
                ELSE /\ Return(t, FALSE, loc[t])
                     /\ lock' = "none"
             /\ UNCHANGED <<heartbeat, candles_inflight, tsVars, out>>
    /\ UNCHANGED notIQ

Connect(t) == CnEnter(t) \/ CnTry(t)

\* -------------------------------------------------------- IQHandler.get_candles
\* entry: without connect_timeout_s the connection is ensured on the caller's
\* thread, before the in-flight check (standard path, may wait for the lock)
GcCall(t, p, q) ==
    /\ pc[t] = "idle"
    /\ loc' = [loc EXCEPT ![t] = [NoLoc EXCEPT !.pair = p, !.quick = q,
                                                !.busy0 = (p \in candles_inflight)]]
    /\ out' = [out EXCEPT ![t] = "none"]
    /\ IF q THEN /\ pc' = [pc EXCEPT ![t] = "gc_inflight"]
                 /\ UNCHANGED stack
            ELSE Call(t, "ec_enter", "gc_after_ec")
    /\ UNCHANGED <<api, lock, heartbeat, candles_inflight, tsVars>>
    /\ UNCHANGED notIQ

GcAfterEnsure(t) ==
    /\ pc[t] = "gc_after_ec"
    /\ IF loc[t].ret
       THEN /\ pc' = [pc EXCEPT ![t] = "gc_inflight"]
            /\ loc' = [loc EXCEPT ![t].ret = FALSE]
            /\ UNCHANGED out
       ELSE /\ pc' = [pc EXCEPT ![t] = "idle"]
            /\ loc' = [loc EXCEPT ![t] = NoLoc]
            /\ out' = [out EXCEPT ![t] = "empty_connect"]
    /\ UNCHANGED <<api, lock, heartbeat, candles_inflight, tsVars, stack>>
    /\ UNCHANGED notIQ

\* (mutant) the in-flight check always lets the caller through
TryAcquireAlways(p) == TRUE

\* "if pair in self._candles_inflight: return []" under _candles_inflight_lock
TryAcquire(p) == p \notin candles_inflight

\* the in-flight check and, for the caller that got the lease,
\* t = threading.Thread(target=_fetch, daemon=True); t.start()
\* (quick mode: _fetch starts with _ensure_connected_quick)
GcInflight(t) ==
    /\ pc[t] = "gc_inflight"
    /\ IF TryAcquire(loc[t].pair)
       THEN /\ FreeWorkers # {}
            /\ candles_inflight' = candles_inflight \cup {loc[t].pair}
            /\ LET w == NewWorker IN
                /\ pc' = [pc EXCEPT ![t] = "gc_join",
                                    ![w] = IF loc[t].quick THEN "eq_enter" ELSE "fw_try"]
                /\ stack' = [stack EXCEPT ![w] = IF loc[t].quick THEN <<"fw_after_eq">>
                                                                ELSE <<>>]
                /\ loc' = [loc EXCEPT ![t].kid = w,
                                      ![w] = [NoLoc EXCEPT !.kind = "candles",
                                                           !.pair = loc[t].pair]]
            /\ UNCHANGED out
       ELSE /\ pc' = [pc EXCEPT ![t] = "idle"]
            /\ loc' = [loc EXCEPT ![t] = NoLoc]
            /\ out' = [out EXCEPT ![t] = "empty_busy"]
            /\ UNCHANGED <<candles_inflight, stack>>
    /\ UNCHANGED <<api, lock, heartbeat, tsVars>>
    /\ UNCHANGED notIQ

\* (mutant) join() without a timeout: only a finished worker ends the wait
JoinForever(t) == FALSE

\* t.join(timeout=timeout_s) came back with the worker still alive
JoinTimeout(t) == Alive(loc[t].kid)

\* t.join(timeout=timeout_s); if t.is_alive(): return []; if not result: return []
GcJoin(t) ==
    /\ pc[t] = "gc_join"
    /\ LET w == loc[t].kid IN
        \/ /\ JoinTimeout(t)
           /\ pc' = [pc EXCEPT ![t] = "idle"]
           /\ loc' = [loc EXCEPT ![t] = NoLoc, ![w].abandoned = TRUE]
           /\ out' = [out EXCEPT ![t] = "empty_timeout"]
        \/ /\ ~Alive(w)
           /\ pc' = [pc EXCEPT ![t] = "idle", ![w] = "free"]
           /\ loc' = [loc EXCEPT ![t] = NoLoc, ![w] = NoLoc]
           /\ out' = [out EXCEPT ![t] = IF loc[w].res = "data" THEN "candles"
                                                              ELSE "empty_result"]
    /\ UNCHANGED <<api, lock, heartbeat, candles_inflight, tsVars, stack>>
    /\ UNCHANGED notIQ

GetCandles(t) == GcAfterEnsure(t) \/ GcInflight(t) \/ GcJoin(t)

\* ------------------------------------------------- get_candles._fetch (worker)
\* quick mode: _ensure_connected_quick has run inside the bounded thread
FwAfterQuick(w) ==
    /\ pc[w] = "fw_after_eq"
    /\ pc' = [pc EXCEPT ![w] = IF loc[w].ret THEN "fw_try" ELSE "fw_finally"]
    /\ loc' = [loc EXCEPT ![w].ret = FALSE]
    /\ UNCHANGED <<api, lock, heartbeat, candles_inflight, tsVars, stack, out>>
    /\ UNCHANGED notIQ

\* next iteration of "for attempt in range(2)", or the end of the loop
FwNext(w, l) ==
    IF l.attempt + 1 < FETCH_ATTEMPTS
    THEN /\ pc' = [pc EXCEPT ![w] = "fw_try"]
         /\ loc' = [loc EXCEPT ![w] = [l EXCEPT !.attempt = l.attempt + 1]]
    ELSE /\ pc' = [pc EXCEPT ![w] = "fw_finally"]
         /\ loc' = [loc EXCEPT ![w] = l]

\* top of an attempt: a missing session raises ConnectionError, whose text
\* holds no transient marker, so the attempt is only logged; otherwise the
\* broker call starts (it may never come back)
FwTry(w) ==
    /\ pc[w] = "fw_try"
    /\ IF api = "none"
       THEN FwNext(w, loc[w])
       ELSE /\ pc' = [pc EXCEPT ![w] = "fw_incall"]
            /\ UNCHANGED loc
    /\ UNCHANGED <<api, lock, heartbeat, candles_inflight, tsVars, stack, out>>
    /\ UNCHANGED notIQ

\* the broker call self.api.get_candles(...) comes back
FwCallReturns(w) ==
    /\ pc[w] = "fw_incall"
    /\ \E o \in {"candles", "empty", "transient", "error"} :
        CASE o = "candles" ->
               /\ pc' = [pc EXCEPT ![w] = "fw_finally"]
               /\ loc' = [loc EXCEPT ![w].res = "data"]
               /\ UNCHANGED api
          [] o = "transient" ->      \* close_connect, self.api = None, sleep
               /\ api' = "none"
               /\ FwNext(w, loc[w])
          [] OTHER ->
               /\ FwNext(w, loc[w])
               /\ UNCHANGED api
    /\ UNCHANGED <<lock, heartbeat, candles_inflight, tsVars, stack, out>>
    /\ UNCHANGED notIQ

\* (mutant) the worker ends without discarding its pair
ReleaseNothing(p) == candles_inflight

\* finally: self._candles_inflight.discard(pair), the last statement of _fetch
Release(p) == candles_inflight \ {p}

FwFinally(w) ==
    /\ pc[w] = "fw_finally"
    /\ candles_inflight' = Release(loc[w].pair)
    /\ ThreadEnd(w, loc[w])
    /\ UNCHANGED <<api, lock, heartbeat, tsVars, out>>
    /\ UNCHANGED notIQ

Fetch(w) ==
    \/ FwAfterQuick(w) \/ FwTry(w) \/ FwCallReturns(w) \/ FwFinally(w)

\* ------------------------------------------------ IQHandler.get_server_timestamp
\* the wall clock moves on: a cached timestamp is fresh for min_interval_s
\* (0.2 s) and usable up to max_cache_stale_s (10 s)
AgeCache ==
    /\ server_ts_cache \in {"fresh", "recent"}
    /\ server_ts_cache' = IF server_ts_cache = "fresh" THEN "recent" ELSE "stale"
    /\ UNCHANGED <<api, lock, heartbeat, candles_inflight, server_ts_inflight,
                   server_ts_thread, pc, stack, loc, out>>
    /\ UNCHANGED notIQ

\* (mutant) no fallback value when the fetch gave no timestamp
CacheOrLocalNothing == "none"

\* "cache if at most 10 s old, else the local clock"
CacheOrLocal == IF server_ts_cache \in {"fresh", "recent"} THEN "cache" ELSE "local"

TsThreadAlive == server_ts_thread # "none" /\ Alive(server_ts_thread)
                    /\ loc[server_ts_thread].kind = "ts"

\* (mutant) only the in-flight flag is looked at, not the last worker
TsBusyFlagOnly == server_ts_inflight

\* "if t is not None and t.is_alive()" and "if self._server_ts_inflight"
TsBusy == TsThreadAlive \/ server_ts_inflight

\* the short cache, then the checks under _server_ts_lock
TsEnter(t) ==
    /\ pc[t] = "ts_enter"
    /\ IF server_ts_cache = "fresh"
       THEN /\ Return(t, TRUE, [loc[t] EXCEPT !.res = "cache"])
            /\ UNCHANGED server_ts_inflight
       ELSE IF TsBusy
       THEN /\ Return(t, TRUE, [loc[t] EXCEPT !.res = CacheOrLocal])
            /\ UNCHANGED server_ts_inflight
       ELSE /\ server_ts_inflight' = TRUE
            /\ pc' = [pc EXCEPT ![t] = "eq_enter"]
            /\ stack' = [stack EXCEPT ![t] = <<"ts_after_eq">> \o stack[t]]
            /\ UNCHANGED loc
    /\ UNCHANGED <<api, lock, heartbeat, candles_inflight, server_ts_thread,
                   server_ts_cache, out>>
    /\ UNCHANGED notIQ

\* after the quick connect: give up with the local clock, or start the worker
TsAfterQuick(t) ==
    /\ pc[t] = "ts_after_eq"
    /\ IF loc[t].ret
       THEN /\ FreeWorkers # {}
            /\ LET w == NewWorker IN
                /\ pc' = [pc EXCEPT ![t] = "ts_join", ![w] = WorkerStart("tw_incall")]
                /\ loc' = [loc EXCEPT ![t].kid = w, ![t].ret = FALSE,
                                      ![w] = [NoLoc EXCEPT !.kind = "ts"]]
                /\ server_ts_thread' = w
            /\ UNCHANGED <<server_ts_inflight, stack>>
       ELSE /\ Return(t, TRUE, [loc[t] EXCEPT !.res = "local"])
            /\ server_ts_inflight' = FALSE
            /\ UNCHANGED server_ts_thread
    /\ UNCHANGED <<api, lock, heartbeat, candles_inflight, server_ts_cache, out>>
    /\ UNCHANGED notIQ

\* t.join(max(0.1, timeout_s)); if not done.is_set(): cache or local clock
TsJoin(t) ==
    /\ pc[t] = "ts_join"
    /\ LET w == loc[t].kid IN
        \/ /\ JoinTimeout(t)
           /\ pc' = [pc EXCEPT ![t] = Head(stack[t])]
           /\ stack' = [stack EXCEPT ![t] = Tail(stack[t])]
           /\ loc' = [loc EXCEPT ![t].kid = "none", ![t].ret = TRUE,
                                 ![t].res = CacheOrLocal, ![w].abandoned = TRUE]
           /\ UNCHANGED server_ts_cache
        \/ /\ ~Alive(w)
           /\ pc' = [pc EXCEPT ![t] = Head(stack[t]), ![w] = "free"]
           /\ stack' = [stack EXCEPT ![t] = Tail(stack[t])]
           /\ IF loc[w].res = "ts"
              THEN /\ server_ts_cache' \in {"fresh", "recent"}
                   /\ loc' = [loc EXCEPT ![t].kid = "none", ![t].ret = TRUE,
                                         ![t].res = "server", ![w] = NoLoc]
              ELSE /\ UNCHANGED server_ts_cache
                   /\ loc' = [loc EXCEPT ![t].kid = "none", ![t].ret = TRUE,
                                         ![t].res = CacheOrLocal, ![w] = NoLoc]
    /\ server_ts_inflight' = FALSE
    /\ UNCHANGED <<api, lock, heartbeat, candles_inflight, server_ts_thread, out>>
    /\ UNCHANGED notIQ

GetServerTimestamp(t) == TsEnter(t) \/ TsAfterQuick(t) \/ TsJoin(t)

\* get_server_timestamp._fetch (worker)
\* the broker call self.api.get_server_timestamp() comes back
TwCallReturns(w) ==
    /\ pc[w] = "tw_incall"
    /\ \E o \in {"ts", "none"} : ThreadEnd(w, [loc[w] EXCEPT !.res = o])
    /\ UNCHANGED <<api, lock, heartbeat, candles_inflight, tsVars, out>>
    /\ UNCHANGED notIQ

FetchTs(w) == TwCallReturns(w)

\* ------------------------------------------------- IQHandler._buy_with_timeout
\* thread = threading.Thread(target=_buy_thread); thread.start(); no lock taken
BtEnter(t) ==
    /\ pc[t] = "bt_enter"
    /\ FreeWorkers # {}
    /\ LET w == NewWorker IN
        /\ pc' = [pc EXCEPT ![t] = "bt_join", ![w] = WorkerStart("bw_incall")]
        /\ loc' = [loc EXCEPT ![t].kid = w,
                              ![w] = [NoLoc EXCEPT !.kind = "buy", !.res = "other"]]
    /\ UNCHANGED <<api, lock, heartbeat, candles_inflight, tsVars, stack, out>>
    /\ UNCHANGED notIQ

\* thread.join(timeout=15); if thread.is_alive(): return False, "Timeout ..."
BtJoin(t) ==
    /\ pc[t] = "bt_join"
    /\ LET w == loc[t].kid IN
        \/ /\ JoinTimeout(t)
           /\ pc' = [pc EXCEPT ![t] = Head(stack[t])]
           /\ loc' = [loc EXCEPT ![t].kid = "none", ![t].ret = FALSE,
                                 ![t].res = "timeout", ![w].abandoned = TRUE]
        \/ /\ ~Alive(w)
           /\ pc' = [pc EXCEPT ![t] = Head(stack[t]), ![w] = "free"]
           /\ loc' = [loc EXCEPT ![t].kid = "none", ![t].ret = (loc[w].res = "order"),
                                 ![t].res = loc[w].res, ![w] = NoLoc]
    /\ stack' = [stack EXCEPT ![t] = Tail(stack[t])]
    /\ UNCHANGED <<api, lock, heartbeat, candles_inflight, tsVars, out>>
    /\ UNCHANGED notIQ

BuyWithTimeout(t) == BtEnter(t) \/ BtJoin(t)

\* _buy_with_timeout._buy_thread (worker)
\* the broker call self.api.buy(...) / buy_digital_spot(...) comes back:
\* an order id, a connection-class reason (socket, closed), or a rejection
BwCallReturns(w) ==
    /\ pc[w] = "bw_incall"
    /\ \E o \in {"order", "conn", "other"} : ThreadEnd(w, [loc[w] EXCEPT !.res = o])
    /\ UNCHANGED <<api, lock, heartbeat, candles_inflight, tsVars, out>>
    /\ UNCHANGED notIQ

BuyThread(w) == BwCallReturns(w)

\* ---------------------------------------------------------------- IQHandler.buy
BUY_MAX_RETRIES == 2

\* "if not self.api": connect on the standard path first
BuyEnter(t) ==
    /\ pc[t] = "buy_enter"
    /\ IF api = "none"
       THEN Call(t, "ec_enter", "buy_after_ec0")
       ELSE /\ pc' = [pc EXCEPT ![t] = "buy_try"]
            /\ UNCHANGED stack
    /\ loc' = [loc EXCEPT ![t].attempt = 0]
    /\ UNCHANGED <<api, lock, heartbeat, candles_inflight, tsVars, out>>
    /\ UNCHANGED notIQ

BuyAfterEnsure0(t) ==
    /\ pc[t] = "buy_after_ec0"
    /\ IF loc[t].ret
       THEN /\ pc' = [pc EXCEPT ![t] = "buy_try"]
            /\ UNCHANGED <<stack, loc>>
       ELSE Return(t, FALSE, [loc[t] EXCEPT !.res = "conn"])
    /\ UNCHANGED <<api, lock, heartbeat, candles_inflight, tsVars, out>>
    /\ UNCHANGED notIQ

BuyTry(t) ==
    /\ pc[t] = "buy_try"
    /\ Call(t, "bt_enter", "buy_after_bt")
    /\ UNCHANGED <<api, lock, heartbeat, candles_inflight, tsVars, loc, out>>
    /\ UNCHANGED notIQ

\* a result whose reason names a socket, a closed connection or a timeout is
\* followed, once, by self._ensure_connected() and another attempt
BuyAfterTimeout(t) ==
    /\ pc[t] = "buy_after_bt"
    /\ IF loc[t].ret
       THEN Return(t, TRUE, loc[t])
       ELSE IF loc[t].res \in {"conn", "timeout"} /\ loc[t].attempt < BUY_MAX_RETRIES - 1
       THEN /\ Call(t, "ec_enter", "buy_after_ec")
            /\ UNCHANGED loc
       ELSE Return(t, FALSE, [loc[t] EXCEPT !.attempt = 0])
    /\ UNCHANGED <<api, lock, heartbeat, candles_inflight, tsVars, out>>
    /\ UNCHANGED notIQ

BuyAfterEnsure(t) ==
    /\ pc[t] = "buy_after_ec"
    /\ pc' = [pc EXCEPT ![t] = "buy_try"]
    /\ loc' = [loc EXCEPT ![t].attempt = loc[t].attempt + 1, ![t].ret = FALSE]
    /\ UNCHANGED <<api, lock, heartbeat, candles_inflight, tsVars, stack, out>>
    /\ UNCHANGED notIQ

\* buy() called on its own
BuyCall(t) ==
    /\ pc[t] = "idle"
    /\ loc' = [loc EXCEPT ![t] = NoLoc]
    /\ out' = [out EXCEPT ![t] = "none"]
    /\ Call(t, "buy_enter", "buy_done")
    /\ UNCHANGED <<api, lock, heartbeat, candles_inflight, tsVars>>
    /\ UNCHANGED notIQ

BuyDone(t) ==
    /\ pc[t] = "buy_done"
    /\ pc' = [pc EXCEPT ![t] = "idle"]
    /\ loc' = [loc EXCEPT ![t] = NoLoc]
    /\ out' = [out EXCEPT ![t] = IF loc[t].ret THEN "order" ELSE loc[t].res]
    /\ UNCHANGED <<api, lock, heartbeat, candles_inflight, tsVars, stack>>
    /\ UNCHANGED notIQ

Buy(t) ==
    \/ BuyEnter(t) \/ BuyAfterEnsure0(t) \/ BuyTry(t)
    \/ BuyAfterTimeout(t) \/ BuyAfterEnsure(t)

\* --------------------------------------------------- SmartTrader.execute_trade
MAX_OPEN_ATTEMPTS == 3

\* main starts the trading session only after api.connect() returned True
SessionStarted == out["boot"] = "connected"

\* the scheduler fires: execute_trade starts by "self.api._ensure_connected()"
EtCall(t) ==
    /\ pc[t] = "idle"
    /\ SessionStarted
    /\ loc' = [loc EXCEPT ![t] = NoLoc]
    /\ out' = [out EXCEPT ![t] = "none"]
    /\ Call(t, "ec_enter", "et_after_ec")
    /\ UNCHANGED <<api, lock, heartbeat, candles_inflight, tsVars>>
    /\ UNCHANGED notIQ

\* leave execute_trade with result r
EtReturn(t, r) ==
    /\ pc' = [pc EXCEPT ![t] = "idle"]
    /\ loc' = [loc EXCEPT ![t] = NoLoc]
    /\ out' = [out EXCEPT ![t] = r]
    /\ UNCHANGED stack

EtAfterEnsure(t) ==
    /\ pc[t] = "et_after_ec"
    /\ IF loc[t].ret
       THEN /\ Call(t, "ts_enter", "et_after_ts0")
            /\ UNCHANGED <<loc, out>>
       ELSE EtReturn(t, "no_connection")
    /\ UNCHANGED <<api, lock, heartbeat, candles_inflight, tsVars>>
    /\ UNCHANGED notIQ

\* the entry window (first 5 s or last 2 s of the candle) on the clock just read
EtAfterTs0(t) ==
    /\ pc[t] = "et_after_ts0"
    /\ \/ EtReturn(t, "blocked")
       \/ /\ pc' = [pc EXCEPT ![t] = "et_open"]
          /\ loc' = [loc EXCEPT ![t].oattempt = 1]
          /\ UNCHANGED <<stack, out>>
    /\ UNCHANGED <<api, lock, heartbeat, candles_inflight, tsVars>>
    /\ UNCHANGED notIQ

\* one opening attempt: re-read the clock first
EtOpen(t) ==
    /\ pc[t] = "et_open"
    /\ Call(t, "ts_enter", "et_after_ts")
    /\ UNCHANGED <<api, lock, heartbeat, candles_inflight, tsVars, loc, out>>
    /\ UNCHANGED notIQ

EtAfterTs(t) ==
    /\ pc[t] = "et_after_ts"
    /\ \/ EtReturn(t, "not_opened")                 \* EntryWindowMissed
       \/ /\ Call(t, "buy_enter", "et_after_buy")
          /\ UNCHANGED <<loc, out>>
    /\ UNCHANGED <<api, lock, heartbeat, candles_inflight, tsVars>>
    /\ UNCHANGED notIQ

\* _should_retry_open: timeouts and socket/closed reasons are tried again
EtAfterBuy(t) ==
    /\ pc[t] = "et_after_buy"
    /\ IF loc[t].ret
       THEN EtReturn(t, "opened")
       ELSE IF loc[t].oattempt < MAX_OPEN_ATTEMPTS /\ loc[t].res \in {"conn", "timeout"}
       THEN /\ pc' = [pc EXCEPT ![t] = "et_open"]
            /\ loc' = [loc EXCEPT ![t].oattempt = loc[t].oattempt + 1]
            /\ UNCHANGED <<stack, out>>
       ELSE EtReturn(t, "not_opened")
    /\ UNCHANGED <<api, lock, heartbeat, candles_inflight, tsVars>>
    /\ UNCHANGED notIQ

\* a scheduler tick reads the clock: api.get_server_timestamp()
TickCall(t) ==
    /\ pc[t] = "idle"
    /\ SessionStarted
    /\ loc' = [loc EXCEPT ![t] = NoLoc]
    /\ out' = [out EXCEPT ![t] = "none"]
    /\ Call(t, "ts_enter", "tick_after_ts")
    /\ UNCHANGED <<api, lock, heartbeat, candles_inflight, tsVars>>
    /\ UNCHANGED notIQ

TickAfterTs(t) ==
    /\ pc[t] = "tick_after_ts"
    /\ pc' = [pc EXCEPT ![t] = "idle"]
    /\ loc' = [loc EXCEPT ![t] = NoLoc]
    /\ out' = [out EXCEPT ![t] = loc[t].res]
    /\ UNCHANGED <<api, lock, heartbeat, candles_inflight, tsVars, stack>>
    /\ UNCHANGED notIQ

ExecuteTrade(t) ==
    \/ EtAfterEnsure(t) \/ EtAfterTs0(t) \/ EtOpen(t) \/ EtAfterTs(t) \/ EtAfterBuy(t)

\* ------------------------------------------------- _start_heartbeat._loop
\* (mutant) the heartbeat looks at the probe only
HbReconnectsProbeOnly == api = "down"

\* with a session present, "ok = self.api.check_connect()" is false or raised,
\* or "_ = self.api.get_balance()" raised
HbReconnects == api \in {"down", "halfopen"}

\* every 15 s: a failed probe, or a failed secondary read, reconnects
HbTick(t) ==
    /\ pc[t] = "idle"
    /\ heartbeat
    /\ HbReconnects
    /\ Call(t, "ec_enter", "idle")
    /\ UNCHANGED <<api, lock, heartbeat, candles_inflight, tsVars, loc, out>>
    /\ UNCHANGED notIQ

\* main: api.connect() at start-up
BootCall(t) ==
    /\ pc[t] = "idle"
    /\ out[t] = "none"
    /\ Call(t, "cn_enter", "boot_after_cn")
    /\ UNCHANGED <<api, lock, heartbeat, candles_inflight, tsVars, loc, out>>
    /\ UNCHANGED notIQ

BootAfterConnect(t) ==
    /\ pc[t] = "boot_after_cn"
    /\ pc' = [pc EXCEPT ![t] = "idle"]
    /\ out' = [out EXCEPT ![t] = IF loc[t].ret THEN "connected" ELSE "failed"]
    /\ loc' = [loc EXCEPT ![t] = NoLoc]
    /\ UNCHANGED <<api, lock, heartbeat, candles_inflight, tsVars, stack>>
    /\ UNCHANGED notIQ

\* ================================================ utils/multi_provider_ai.py
MaxRequests == 2

COOLDOWN_RATE_LIMIT == 60
COOLDOWN_ERROR == 30
COOLDOWN_AUTH == 3600
MAX_CONSECUTIVE_ERRORS == 3
\* AnalysisCache.ttl
CACHE_TTL == 30
\* OpenAI(..., timeout=25.0): the longest a provider call lasts
CLIENT_TIMEOUT == 25

Min(a, b) == IF a <= b THEN a ELSE b
Max(a, b) == IF a >= b THEN a ELSE b

\* _init_providers: the providers in the order they are inserted in self.providers
ProviderOrder == <<"openrouter", "groq", "gemini">>
ProviderNames == {ProviderOrder[i] : i \in 1..Len(ProviderOrder)}
ProviderPriority == [openrouter |-> 1, groq |-> 2, gemini |-> 3]

\* dataclass ProviderConfig with its defaults
ProviderConfig(n) ==
    [priority |-> ProviderPriority[n], cooldown_until |-> 0, consecutive_errors |-> 0,
     total_calls |-> 0, rate_limit_hits |-> 0]

Signals == {"CALL", "PUT"}

\* an error message is the set of the substrings, among those the code looks
\* for, that its lower-cased text contains
ErrorMessages ==
    { {"429", "rate", "limit"},        \* "Error code: 429 - Rate limit exceeded"
      {"401", "api key"},              \* "Error code: 401 - Incorrect API key provided"
      {"403", "limit"},                \* "Error code: 403 - Key limit exceeded"
      {} }                             \* "Request timed out."

\* how long the call lasted when it raised error_msg: the timeout is raised
\* after CLIENT_TIMEOUT seconds, an error answer comes back within the second
ErrorAfter(error_msg) == IF error_msg = {} THEN CLIENT_TIMEOUT ELSE 0

\* a provider's answer: whether it contains CONFIRMAR, and the number after
\* CONFIANCA (-1: no such number)
Responses ==
    { [confirmar |-> TRUE, confianca |-> -1],
      [confirmar |-> FALSE, confianca |-> 90] }

\* how long a call that is answered lasts
AnswerAfter == {1}

\* self.memory as seen for the pattern of the request
Memories ==
    { [present |-> FALSE, known |-> FALSE, wins |-> 0, total |-> 0],
      [present |-> TRUE, known |-> TRUE, wins |-> 8, total |-> 10] }

\* number of green candles among the last five (-1: fewer than five candles)
Greens == {-1, 3}

\* how much time passes between two requests
Gaps == {0, COOLDOWN_ERROR, COOLDOWN_RATE_LIMIT, COOLDOWN_AUTH}

NoEntry == [present |-> FALSE, confidence |-> 0, timestamp |-> 0]
NoResult == [confirm |-> FALSE, confidence |-> 0, reason |-> "none"]
NoRequest ==
    [signal |-> "none", tried |-> <<>>, i |-> 0, provider |-> "none", error_msg |-> {},
     rate_limited |-> 0, cooldown0 |-> FALSE, eligible0 |-> {}]

\* self.providers.items()
Items ==
    LET configured(n) == n \in DOMAIN providers
    IN SelectSeq(ProviderOrder, configured)

\* "a < b" on tuples of integers of the same length
TupleLess(a, b) ==
    \E i \in 1..Len(a) : a[i] < b[i] /\ \A j \in 1..(i - 1) : a[j] = b[j]

\* list.sort / sorted with a key: stable, ascending
RECURSIVE InsertByKey(_, _, _)
InsertByKey(x, s, key) ==
    IF s = <<>> THEN <<x>>
    ELSE IF TupleLess(key[x], key[Head(s)]) THEN <<x>> \o s
    ELSE <<Head(s)>> \o InsertByKey(x, Tail(s), key)

RECURSIVE SortedByKey(_, _)
SortedByKey(s, key) ==
    IF s = <<>> THEN <<>>
    ELSE InsertByKey(s[Len(s)], SortedByKey(SubSeq(s, 1, Len(s) - 1), key), key)

\* (mutant) the available providers ordered by fewest errors first
AvailableKeyErrorsFirst(n) == <<providers[n].consecutive_errors, providers[n].priority>>

\* key=lambda x: (x[1].priority, x[1].consecutive_errors)
AvailableKey(n) == <<providers[n].priority, providers[n].consecutive_errors>>

\* key=lambda x: x[1].cooldown_until
CooldownKey(n) == <<providers[n].cooldown_until>>

\* _get_best_provider at time.time() = now
GetBestProvider ==
    LET ok(n) == /\ providers[n].cooldown_until < now
                 /\ providers[n].consecutive_errors < MAX_CONSECUTIVE_ERRORS
        available == SelectSeq(Items, ok)
        by_cooldown == SortedByKey(Items, [n \in DOMAIN providers |-> CooldownKey(n)])
    IN IF available = <<>>
       THEN IF by_cooldown # <<>> THEN by_cooldown[1] ELSE "none"
       ELSE SortedByKey(available, [n \in DOMAIN providers |-> AvailableKey(n)])[1]

\* (mutant) a failure that counts the error but sets no cooldown
SetCooldownNoDeadline(ps, provider_name, duration, t) ==
    [ps EXCEPT ![provider_name].consecutive_errors = @ + 1]

\* _set_cooldown at time.time() = t
SetCooldown(ps, provider_name, duration, t) ==
    [ps EXCEPT ![provider_name].cooldown_until = t + duration,
               ![provider_name].consecutive_errors = @ + 1]

\* _reset_provider_errors
ResetProviderErrors(ps, provider_name) ==
    [ps EXCEPT ![provider_name].consecutive_errors = 0,
               ![provider_name].total_calls = @ + 1]

RateLimitIndicators ==
    {"rate", "429", "quota", "limit", "too many", "resource_exhausted", "throttl"}
AuthIndicators == {"401", "403", "unauthorized", "invalid key", "api key"}

IsRateLimitError(error_msg) == error_msg \cap RateLimitIndicators # {}
IsAuthError(error_msg) == error_msg \cap AuthIndicators # {}

\* (mutant) the except block with the auth test first
OnProviderErrorAuthFirst(ps, provider_name, error_msg, t) ==
    IF IsAuthError(error_msg)
    THEN SetCooldown(ps, provider_name, COOLDOWN_AUTH, t)
    ELSE IF IsRateLimitError(error_msg)
    THEN SetCooldown([ps EXCEPT ![provider_name].rate_limit_hits = @ + 1],
                     provider_name, COOLDOWN_RATE_LIMIT, t)
    ELSE SetCooldown(ps, provider_name, COOLDOWN_ERROR, t)

\* the except block of _call_provider
OnProviderError(ps, provider_name, error_msg, t) ==
    IF IsRateLimitError(error_msg)
    THEN SetCooldown([ps EXCEPT ![provider_name].rate_limit_hits = @ + 1],
                     provider_name, COOLDOWN_RATE_LIMIT, t)
    ELSE IF IsAuthError(error_msg)
    THEN SetCooldown(ps, provider_name, COOLDOWN_AUTH, t)
    ELSE SetCooldown(ps, provider_name, COOLDOWN_ERROR, t)

\* (mutant) a lookup that does not test is_valid()
GetCachedAnalysisNoTtl(signal, t) == cache[signal]

\* _get_cached_analysis at time.time() = t (AnalysisCache.is_valid)
GetCachedAnalysis(signal, t) ==
    IF cache[signal].present /\ t - cache[signal].timestamp < CACHE_TTL
    THEN cache[signal] ELSE NoEntry

\* _parse_response: (confirm, confidence)
ParseResponse(r) ==
    LET confidence == IF r.confianca >= 0 THEN Min(100, Max(0, r.confianca)) ELSE 70
    IN [confirm |-> r.confirmar,
        confidence |-> IF r.confirmar THEN confidence ELSE Min(confidence, 45)]

\* _adjust_confidence_by_winrate (wr = wins / total * 100)
AdjustConfidenceByWinrate(confidence, m) ==
    IF ~m.present THEN confidence
    ELSE IF ~m.known THEN Max(confidence, 60)
    ELSE IF m.total = 0 THEN confidence
    ELSE IF m.wins * 100 > 70 * m.total THEN Min(100, confidence + 25)
    ELSE IF m.wins * 100 >= 60 * m.total THEN Min(100, confidence + 15)
    ELSE Max(confidence, 60)

\* _smart_fallback
SmartFallback(signal, m, greens) ==
    LET c1 == IF m.present /\ m.known /\ m.total >= 5
              THEN IF m.wins * 100 >= 60 * m.total THEN 75 + 15
                   ELSE IF m.wins * 100 < 40 * m.total THEN 75 - 10
                   ELSE 75
              ELSE 75
        c2 == IF greens >= 0 /\ ((signal = "CALL" /\ greens >= 3) \/ (signal = "PUT" /\ greens <= 2))
              THEN c1 + 10 ELSE c1
    IN [confirm |-> TRUE, confidence |-> Min(100, Max(50, c2)), reason |-> "fallback"]

\* analyze_signal, called gap seconds after the last step, up to the provider
\* loop: the min_interval sleep (1.5 s; on the clock of whole seconds the thread
\* is awake again at last + 2), the cache lookup and the "no provider
\* configured" answer
AnEnter(signal, gap) ==
    /\ ai_pc = "idle"
    /\ requests' = requests + 1
    /\ LET called == now + gap
           woke == IF 2 * (called - last_analysis_time) < 3
                   THEN last_analysis_time + 2 ELSE called
           cached == GetCachedAnalysis(signal, woke)
       IN /\ now' = woke
          /\ IF cached.present
             THEN /\ ai_out' = [confirm |-> TRUE, confidence |-> cached.confidence,
                                reason |-> "cache"]
                  /\ UNCHANGED <<ai_pc, ai_loc>>
             ELSE IF DOMAIN providers = {}
             THEN /\ ai_out' = [confirm |-> TRUE, confidence |-> 70, reason |-> "unconfigured"]
                  /\ UNCHANGED <<ai_pc, ai_loc>>
             ELSE /\ ai_pc' = "an_select"
                  /\ ai_out' = NoResult
                  /\ ai_loc' = [NoRequest EXCEPT
                        !.signal = signal,
                        !.cooldown0 = \A n \in DOMAIN providers : providers[n].cooldown_until > woke,
                        !.eligible0 = {n \in DOMAIN providers :
                                          /\ providers[n].cooldown_until < woke
                                          /\ providers[n].consecutive_errors < MAX_CONSECUTIVE_ERRORS}]
    /\ UNCHANGED <<providers, cache, last_analysis_time, current_provider>>
    /\ UNCHANGED notAI

\* (mutant) a loop that does not look at tried_providers
AlreadyTriedNever(provider_name) == FALSE

\* provider_name in tried_providers
AlreadyTried(provider_name) ==
    \E k \in 1..Len(ai_loc.tried) : ai_loc.tried[k] = provider_name

\* for _ in range(len(self.providers)): provider_name = self._get_best_provider();
\* if not provider_name or provider_name in tried_providers: break
AnSelect ==
    /\ ai_pc = "an_select"
    /\ LET provider_name == GetBestProvider IN
        IF \/ ai_loc.i >= Cardinality(DOMAIN providers)
           \/ provider_name = "none"
           \/ AlreadyTried(provider_name)
        THEN /\ ai_pc' = "an_fallback"
             /\ UNCHANGED ai_loc
        ELSE /\ ai_pc' = "an_call"
             /\ ai_loc' = [ai_loc EXCEPT !.tried = Append(@, provider_name),
                                         !.provider = provider_name, !.i = @ + 1]
    /\ UNCHANGED <<now, providers, cache, last_analysis_time, current_provider, requests, ai_out>>
    /\ UNCHANGED notAI

\* _call_provider answered with a text: the decision is parsed, adjusted, cached
\* and returned
AnResponse ==
    /\ ai_pc = "an_call"
    /\ \E d \in AnswerAfter, r \in Responses, m \in Memories :
        LET parsed == ParseResponse(r)
            confidence == AdjustConfidenceByWinrate(parsed.confidence, m)
        IN /\ now' = now + d
           /\ providers' = ResetProviderErrors(providers, ai_loc.provider)
           /\ current_provider' = ai_loc.provider
           /\ last_analysis_time' = now + d
           /\ cache' = [cache EXCEPT ![ai_loc.signal] =
                            [present |-> TRUE, confidence |-> confidence, timestamp |-> now + d]]
           /\ ai_out' = [confirm |-> parsed.confirm, confidence |-> confidence,
                         reason |-> "provider"]
    /\ ai_pc' = "idle"
    /\ ai_loc' = NoRequest
    /\ UNCHANGED requests
    /\ UNCHANGED notAI

\* _call_provider answered with an empty content: "if response:" is false and
\* the loop goes on
AnEmptyResponse ==
    /\ ai_pc = "an_call"
    /\ \E d \in AnswerAfter : now' = now + d
    /\ providers' = ResetProviderErrors(providers, ai_loc.provider)
    /\ current_provider' = ai_loc.provider
    /\ ai_pc' = "an_select"
    /\ UNCHANGED <<cache, last_analysis_time, requests, ai_loc, ai_out>>
    /\ UNCHANGED notAI

\* the provider call raised: cooldown by the kind of error, _call_provider
\* returns None and the loop goes on
AnException ==
    /\ ai_pc = "an_call"
    /\ \E error_msg \in ErrorMessages :
        LET t == now + ErrorAfter(error_msg) IN
        /\ now' = t
        /\ providers' = OnProviderError(providers, ai_loc.provider, error_msg, t)
        /\ ai_loc' = [ai_loc EXCEPT
                !.error_msg = error_msg,
                !.rate_limited = IF IsRateLimitError(error_msg) THEN @ + 1 ELSE @]
    /\ ai_pc' = "an_select"
    /\ UNCHANGED <<cache, last_analysis_time, current_provider, requests, ai_out>>
    /\ UNCHANGED notAI

\* return self._smart_fallback(signal, desc, candles, sr_zones)
AnFallback ==
    /\ ai_pc = "an_fallback"
    /\ \E m \in Memories, greens \in Greens :
        ai_out' = SmartFallback(ai_loc.signal, m, greens)
    /\ ai_pc' = "idle"
    /\ ai_loc' = NoRequest
    /\ UNCHANGED <<now, providers, cache, last_analysis_time, current_provider, requests>>
    /\ UNCHANGED notAI

\* the steps of a request once it is past the cache
AnLoop == AnSelect \/ AnResponse \/ AnEmptyResponse \/ AnException \/ AnFallback

AnalyzeSignal ==
    \/ /\ requests < MaxRequests
       /\ \E signal \in Signals, gap \in Gaps : AnEnter(signal, gap)
    \/ AnLoop

\* MultiProviderAI.__init__ with the providers of c configured
InitProviders(c) ==
    /\ now = 10
    /\ providers = [n \in c |-> ProviderConfig(n)]
    /\ cache = [s \in Signals |-> NoEntry]
    /\ last_analysis_time = 0
    /\ current_provider = GetBestProvider
    /\ requests = 0
    /\ ai_pc = "idle"
    /\ ai_loc = NoRequest
    /\ ai_out = NoResult


\* ============================================ main.py: run_trading_session.worker
MaxTime == 125
\* cfg.timeframe (minutes), cfg.profit_goal, cfg.stop_loss
Timeframe == 1
ProfitGoal == 2
StopLoss == 2

ARM_WINDOW == 2
OPEN_WINDOW == 5
AI_WINDOW_M1 == 15
AI_WINDOW_OTHER == 45

Pairs == {"EURUSD", "GBPUSD"}
\* the result of a settled trade, in units of the stake
Profits == {-1, 1}

CandleDuration == Timeframe * 60
CandleStarts == {k * CandleDuration : k \in 0..(MaxTime \div CandleDuration)}
AiWindowOther == AI_WINDOW_OTHER
AiWindow == IF Timeframe = 1 THEN AI_WINDOW_M1 ELSE AI_WINDOW_OTHER

NoTick == [current_candle |-> -1, candle_end |-> 0, seconds_left |-> 0, sleep |-> 0,
           source |-> "none"]

\* get_server_timestamp(timeout_s=2.0, connect_timeout_s=2.0, max_cache_stale_s=10.0)
MAX_CACHE_STALE == 10
TS_TIMEOUT == 2
TS_CONNECT_TIMEOUT == 2

\* the longest one call of get_server_timestamp lasts: the quick connect and
\* the join on the timestamp worker
MaxReadDelay == TS_CONNECT_TIMEOUT + TS_TIMEOUT

\* the age of the timestamp returned: 0 for a fetch, else the age of the cache
CacheAges == {0, 1, 2, MAX_CACHE_STALE}

\* "self._pair_cooldown[pair] = max(self._pair_cooldown.get(pair, 0), 2)"
PAIR_COOLDOWN == 2

\* the fires of a candle are counted up to MaxCount
MaxCount == 2

\* how far the local clock (time.time()) is from the broker's clock
LocalDrifts == {-3, 3}

\* what one call of api.get_server_timestamp() can give the worker: the
\* broker's timestamp just fetched, or the cached timestamp of a fetch made up
\* to max_cache_stale_s ago (returned as it was fetched while a timestamp worker
\* is running or hung); the local clock "now_wall" when the connection or the
\* fetch failed and the cache is older; 0 when the call raised
ServerReadsAt(t) ==
    {[ts |-> t - k, source |-> "broker"] : k \in {a \in CacheAges : a < t}}
        \cup {[ts |-> t + d, source |-> "local"] : d \in LocalDrifts}
        \cup {[ts |-> 0, source |-> "none"]}

ServerReads == ServerReadsAt(stime)

\* (mutant) the candle is never seen as already traded
AlreadyTradedNever(current_candle) == FALSE

\* "if last_candle_traded == current_candle"
AlreadyTraded(current_candle) == last_candle_traded = current_candle

\* (mutant) a grace window with no upper end
InGraceNoEnd(new_elapsed) == 0 <= new_elapsed

\* "0.0 <= new_elapsed <= open_window"
InGrace(new_elapsed) == 0 <= new_elapsed /\ new_elapsed <= OPEN_WINDOW

\* (mutant) the blacklist is emptied in any candle that is not the traded one
ShouldClearAnytime(current_candle, seconds_elapsed) ==
    last_candle_traded # current_candle

\* "if last_candle_traded != current_candle and seconds_elapsed < 2"
ShouldClear(current_candle, seconds_elapsed) ==
    last_candle_traded # current_candle /\ seconds_elapsed < 2

\* (mutant) the iteration does not come back to the head of the loop
SleepThenEnd(s) ==
    /\ sch_pc' = "stopped"
    /\ sch_loc' = [NoTick EXCEPT !.sleep = s]

\* time.sleep(s) and back to the head of the loop; a sleep of less than a
\* second does not show on the clock of whole seconds
SleepThenTick(s) ==
    /\ sch_pc' = "tick"
    /\ sch_loc' = [NoTick EXCEPT !.sleep = s]

\* lines 717-780 with the seconds_left computed at the head of the iteration:
\* armed in the last 2 s, else wait with the candidate held, else keep searching
ArmOrWait(signal, l) ==
    IF signal # "none" /\ 0 < l.seconds_left /\ l.seconds_left <= ARM_WINDOW
    THEN /\ sch_pc' = "poll"
         /\ sch_loc' = l
    ELSE IF signal # "none"
    THEN SleepThenTick(0)
    ELSE SleepThenTick(1)

\* the broker's clock advances. A worker that is due at the head of the loop
\* reads the clock within MaxReadDelay seconds (sleep counts the seconds left
\* to sleep, and below zero the seconds the worker is late); the signal search,
\* execute_trade and the poll have no such bound
SchClock ==
    /\ stime < MaxTime
    /\ sch_pc = "tick" => sch_loc.sleep > -MaxReadDelay
    /\ stime' = stime + 1
    /\ sch_loc' = [sch_loc EXCEPT !.sleep = IF sch_pc = "tick" THEN @ - 1 ELSE 0]
    /\ UNCHANGED <<sch_pc, last_candle_traded, cached_signal, failed_pairs_this_candle,
                   current_profit, fired, signal_candle, failed_in>>
    /\ UNCHANGED <<pair_cooldown, notSch>>

\* "VERIFICAR LIMITES": the profit goal or the stop loss ends the loop
SchStop ==
    /\ sch_pc = "tick"
    /\ sch_loc.sleep <= 0
    /\ (ProfitGoal > 0 /\ current_profit >= ProfitGoal) \/ current_profit <= -StopLoss
    /\ sch_pc' = "stopped"
    /\ UNCHANGED <<stime, sch_loc, last_candle_traded, cached_signal,
                   failed_pairs_this_candle, current_profit, fired, signal_candle, failed_in>>
    /\ UNCHANGED <<pair_cooldown, notSch>>

\* one iteration of "while not stop_threads" up to the signal search, with r
\* the answer of api.get_server_timestamp()
SchTickRead(r) ==
    /\ sch_pc = "tick"
    /\ sch_loc.sleep <= 0
    /\ ~((ProfitGoal > 0 /\ current_profit >= ProfitGoal) \/ current_profit <= -StopLoss)
    /\ LET server_time == r.ts IN
        IF server_time <= 0
        THEN /\ SleepThenTick(1)
             /\ UNCHANGED <<cached_signal, failed_pairs_this_candle, signal_candle, failed_in>>
        ELSE LET candle_start == server_time - (server_time % CandleDuration)
                 candle_end == candle_start + CandleDuration
                 seconds_left == candle_end - server_time
                 seconds_elapsed == server_time - candle_start
                 l == [NoTick EXCEPT !.current_candle = candle_start,
                                     !.candle_end = candle_end,
                                     !.seconds_left = seconds_left,
                                     !.source = r.source]
             IN /\ IF ShouldClear(candle_start, seconds_elapsed)
                   THEN /\ failed_pairs_this_candle' = {}
                        /\ failed_in' = [p \in Pairs |-> -1]
                   ELSE UNCHANGED <<failed_pairs_this_candle, failed_in>>
                /\ IF AlreadyTraded(candle_start)
                   THEN /\ SleepThenTick(1)
                        /\ UNCHANGED <<cached_signal, signal_candle>>
                   ELSE IF seconds_left > AiWindow
                   THEN /\ cached_signal' = "none"
                        /\ signal_candle' = -1
                        /\ SleepThenTick(1)
                   ELSE IF cached_signal = "none"
                   THEN /\ sch_pc' = "analyze"
                        /\ sch_loc' = l
                        /\ UNCHANGED <<cached_signal, signal_candle>>
                   ELSE /\ ArmOrWait(cached_signal, l)
                        /\ UNCHANGED <<cached_signal, signal_candle>>
    /\ UNCHANGED <<stime, last_candle_traded, current_profit, fired>>
    /\ UNCHANGED <<pair_cooldown, notSch>>

SchTick == SchStop \/ \E r \in ServerReads : SchTickRead(r)

\* "for pair, cooldown_candles in self._pair_cooldown.items(): if
\* cooldown_candles > 0: exclude.add(pair)"
CoolingPairs == {p \in Pairs : pair_cooldown[p] > 0}

\* smart_trader.analyze_all_pairs(exclude_pairs=failed_pairs_this_candle)
\* returned: a candidate for a pair that is not excluded, or None
SchAnalyzed ==
    /\ sch_pc = "analyze"
    /\ \E signal \in (Pairs \ (failed_pairs_this_candle \cup CoolingPairs)) \cup {"none"} :
        /\ cached_signal' = signal
        /\ signal_candle' = IF signal = "none" THEN -1 ELSE stime - (stime % CandleDuration)
        /\ ArmOrWait(signal, sch_loc)
    /\ UNCHANGED <<stime, last_candle_traded, failed_pairs_this_candle, current_profit,
                   fired, failed_in>>
    /\ UNCHANGED <<pair_cooldown, notSch>>

\* the poll "while True: now_ts = get_server_timestamp(); if now_ts >= target_turn:
\* break" ends on an answer that has reached the target; the clock is read again
\* (now_ts) and the grace window decides: fire (execute_trade is called) or drop
\* the candidate
SchArmedRead(now_ts) ==
    /\ sch_pc = "poll"
    /\ LET target_turn == sch_loc.candle_end - 1 IN
        /\ \E polled \in ServerReads : polled.ts >= target_turn
        /\ IF now_ts <= 0 \/ ~InGrace(now_ts - target_turn)
           THEN /\ cached_signal' = "none"
                /\ signal_candle' = -1
                /\ SleepThenTick(0)
                /\ fired' = [fired EXCEPT ![sch_loc.current_candle].late =
                                @ \/ (now_ts - target_turn > OPEN_WINDOW)]
           ELSE /\ sch_pc' = "execute"
                /\ fired' = [fired EXCEPT ![sch_loc.current_candle].fires = Min(MaxCount, @ + 1)]
                /\ UNCHANGED <<sch_loc, cached_signal, signal_candle>>
    /\ UNCHANGED <<stime, last_candle_traded, failed_pairs_this_candle, current_profit,
                   failed_in>>
    /\ UNCHANGED <<pair_cooldown, notSch>>

SchArmed == \E r \in ServerReads : SchArmedRead(r.ts)

\* execute_trade returned with last_order_opened false: the pair is blacklisted
\* for the candle and the candidate is dropped
DropNotOpened ==
    /\ sch_pc = "execute"
    /\ failed_pairs_this_candle' = failed_pairs_this_candle \cup {cached_signal}
    /\ failed_in' = [failed_in EXCEPT ![cached_signal] = sch_loc.current_candle]
    /\ cached_signal' = "none"
    /\ signal_candle' = -1
    /\ SleepThenTick(0)
    /\ UNCHANGED <<stime, last_candle_traded, current_profit, fired>>
    /\ UNCHANGED notSch

\* execute_trade left before the submission (entry window missed) or on a
\* ConnectionError: no cooldown is set
SchNotOpened ==
    /\ DropNotOpened
    /\ UNCHANGED pair_cooldown

\* execute_trade left because the broker refused the order: "FALHA AO ABRIR
\* ORDEM", self._pair_cooldown[pair] = max(self._pair_cooldown.get(pair, 0), 2)
SchRefused ==
    /\ DropNotOpened
    /\ pair_cooldown' = [pair_cooldown EXCEPT ![cached_signal] = Max(@, PAIR_COOLDOWN)]

\* execute_trade returned with last_order_opened true (check_win gave the
\* result of the order, which expires at a turn of the candle) and
\* api.get_balance() returned: the profit is added and the candle is marked as
\* traded
SchOpened ==
    /\ sch_pc = "execute"
    /\ stime >= sch_loc.candle_end
    /\ \E profit \in Profits : current_profit' = current_profit + profit
    /\ last_candle_traded' = sch_loc.current_candle
    /\ cached_signal' = "none"
    /\ signal_candle' = -1
    /\ fired' = [fired EXCEPT ![sch_loc.current_candle].opened = Min(MaxCount, @ + 1)]
    /\ SleepThenTick(2)
    /\ UNCHANGED <<stime, failed_pairs_this_candle, failed_in>>
    /\ UNCHANGED <<pair_cooldown, notSch>>

\* execute_trade returned with last_order_opened true and "cfg.balance =
\* api.get_balance()" raised (IQHandler.get_balance reads self.api.get_balance()
\* whatever _ensure_connected() returned, and a failed reconnect leaves self.api
\* None): the profit was added, and the handler "except Exception: time.sleep(2)"
\* of the loop is next
SchBalanceRaised ==
    /\ sch_pc = "execute"
    /\ stime >= sch_loc.candle_end
    /\ \E profit \in Profits : current_profit' = current_profit + profit
    /\ fired' = [fired EXCEPT ![sch_loc.current_candle].opened = Min(MaxCount, @ + 1)]
    /\ SleepThenTick(2)
    /\ UNCHANGED <<stime, last_candle_traded, cached_signal, signal_candle,
                   failed_pairs_this_candle, failed_in>>
    /\ UNCHANGED <<pair_cooldown, notSch>>

SchExecuted == SchNotOpened \/ SchOpened \/ SchBalanceRaised

Worker == SchTick \/ SchAnalyzed \/ SchArmed \/ SchExecuted

InitSch ==
    /\ stime = 40
    /\ sch_pc = "tick"
    /\ sch_loc = NoTick
    /\ last_candle_traded = -1
    /\ cached_signal = "none"
    /\ failed_pairs_this_candle = {}
    /\ current_profit = 0
    /\ fired = [c \in CandleStarts |-> [fires |-> 0, opened |-> 0, late |-> FALSE]]
    /\ signal_candle = -1
    /\ failed_in = [p \in Pairs |-> -1]
    /\ pair_cooldown = [p \in Pairs |-> 0]

\* ------------------------------------------------- utils/smart_trader.py
\* SmartTrader.execute_trade from the opened first order on, and
\* SmartTrader._execute_martingale

\* cfg.martingale_levels
martingale_levels == 2

\* the results check_win can give for a settled order, in units of the stake:
\* a win, a loss, and 0 (a draw, or check_win giving up after its retries)
Results == {-1, 0, 1}

\* entry_window_s = 5.0
ENTRY_WINDOW == 5
\* "elapsed2 >= candle_duration - 2.0"
GALE_EARLY == 2

\* the clock of a level runs from its first read, inside the candle
\* [CandleDuration, 2 * CandleDuration), until every read made for the wait of
\* the next turn has passed it
GaleMaxTime == 2 * CandleDuration + MAX_CACHE_STALE + 3

\* (mutant) one level more than configured
GaleRangeOneMore == 0..martingale_levels

\* "range(cfg.martingale_levels)"
GaleRange == 0..(martingale_levels - 1)

\* _elapsed_in_candle(ts)
ElapsedInCandle(ts) == ts % CandleDuration

\* (mutant) every moment of the candle is a valid entry
ValidWindowGaleAlways(elapsed2) == TRUE

\* "valid_window_gale = (elapsed2 <= entry_window_s) or (elapsed2 >= candle_duration - 2.0)"
ValidWindowGale(elapsed2) ==
    elapsed2 <= ENTRY_WINDOW \/ elapsed2 >= CandleDuration - GALE_EARLY

\* the head of "for level in range(cfg.martingale_levels)": the body runs for
\* the level l, or the loop is over and execute_trade returns
GaleLoop(l) ==
    IF l \in GaleRange
    THEN gale_pc' = "sync" /\ level' = l
    ELSE gale_pc' = "returned" /\ level' = level

\* "break", or an exception that reaches the handler of execute_trade: the
\* ladder is over and execute_trade returns
GaleLeave ==
    /\ gale_pc' = "returned"
    /\ target' = 0
    /\ UNCHANGED <<level, results, placed>>

\* time passes
GaleClock ==
    /\ gtime < GaleMaxTime
    /\ gtime' = gtime + 1
    /\ UNCHANGED <<gale_pc, level, target, results, placed>>
    /\ UNCHANGED notGale

\* execute_trade: "if check: self.last_order_opened = True", the first order is open
ExecuteTradeOpened ==
    /\ gale_pc \in {"idle", "returned"}
    /\ gale_pc' = "first_check"
    /\ level' = 0 /\ target' = 0 /\ results' = <<>> /\ placed' = 0
    /\ UNCHANGED gtime
    /\ UNCHANGED notGale

\* execute_trade: "result = self.api.check_win(order_id)" returned for the
\* first order: a win or a draw returns, a loss calls _execute_martingale
FirstSettled ==
    /\ gale_pc = "first_check"
    /\ \E result \in Results :
        /\ results' = <<result>>
        /\ IF result < 0
           THEN GaleLoop(0)
           ELSE gale_pc' = "returned" /\ level' = level
    /\ UNCHANGED <<target, gtime, placed>>
    /\ UNCHANGED notGale

\* the first read of a level, "server_time = self.api.get_server_timestamp();
\* elapsed0 = _elapsed_in_candle(server_time)", with r the answer: past the
\* entry window the level waits for the next turn
GaleSync(r) ==
    /\ gale_pc = "sync"
    /\ gtime' = CandleDuration + (gtime % CandleDuration)
    /\ IF r.source = "none"
       THEN GaleLeave
       ELSE LET server_time == r.ts
                elapsed0 == ElapsedInCandle(server_time)
            IN /\ IF elapsed0 > ENTRY_WINDOW
                  THEN /\ target' = server_time + (CandleDuration - elapsed0)
                       /\ gale_pc' = "wait"
                  ELSE /\ target' = 0
                       /\ gale_pc' = "recheck"
               /\ UNCHANGED <<level, results, placed>>
    /\ UNCHANGED notGale

\* "while True: now = self.api.get_server_timestamp(); if now >= target: break;
\* time.sleep(0.25)", one round with r the answer
GaleWaitPoll(r) ==
    /\ gale_pc = "wait"
    /\ IF r.source = "none"
       THEN GaleLeave
       ELSE IF r.ts >= target
       THEN /\ gale_pc' = "recheck"
            /\ UNCHANGED <<level, target, results, placed>>
       ELSE UNCHANGED <<gale_pc, level, target, results, placed>>
    /\ UNCHANGED gtime
    /\ UNCHANGED notGale

\* "st2 = self.api.get_server_timestamp(); ...; if not valid_window_gale: break"
GaleRecheck(r) ==
    /\ gale_pc = "recheck"
    /\ IF r.source = "none"
       THEN GaleLeave
       ELSE LET elapsed2 == ElapsedInCandle(r.ts)
                valid_window_gale == ValidWindowGale(elapsed2)
            IN IF valid_window_gale
               THEN /\ gale_pc' = "buy"
                    /\ target' = 0
                    /\ UNCHANGED <<level, results, placed>>
               ELSE GaleLeave
    /\ UNCHANGED gtime
    /\ UNCHANGED notGale

\* "check, order_id = self.api.buy(curr_amount, ...)": the gale order opens,
\* or "Erro ao entrar no Gale" and break
GaleBuy ==
    /\ gale_pc = "buy"
    /\ \E check \in BOOLEAN :
        IF check
        THEN /\ gale_pc' = "check"
             /\ placed' = placed + 1
             /\ UNCHANGED <<level, target, results>>
        ELSE GaleLeave
    /\ UNCHANGED gtime
    /\ UNCHANGED notGale

\* "result = self.api.check_win(order_id); if result > 0: ... break; else: ..."
\* for a gale order: a positive result ends the ladder, any other result goes
\* on with the next level
GaleSettled ==
    /\ gale_pc = "check"
    /\ \E result \in Results :
        /\ results' = Append(results, result)
        /\ IF result > 0
           THEN gale_pc' = "returned" /\ level' = level
           ELSE GaleLoop(level + 1)
    /\ UNCHANGED <<target, gtime, placed>>
    /\ UNCHANGED notGale

ExecuteMartingale ==
    \/ \E r \in ServerReadsAt(CandleDuration + (gtime % CandleDuration)) : GaleSync(r)
    \/ \E r \in ServerReadsAt(gtime) : GaleWaitPoll(r)
    \/ \E r \in ServerReadsAt(gtime) : GaleRecheck(r)
    \/ GaleBuy
    \/ GaleSettled

InitGale ==
    /\ gale_pc = "idle"
    /\ level = 0
    /\ target = 0
    /\ gtime = CandleDuration
    /\ results = <<>>
    /\ placed = 0

\* --------------------------------------------------- specification: candles
\* ------------------------------ IQHandler._start_heartbeat, _loop and close
\* The heartbeat loops as threads of their own. _ensure_connected is one step
\* here (entered with self._lock, left with its result); its attempts and
\* backoff are the EnsureConnected of the other specifications.

\* the loop threads that can exist
MaxLoops == 3
LoopIds == 1..MaxLoops

\* (as intended) the loop holds the Event of the _start_heartbeat that started it
StopEventOfLoop(i) == hb_born[i]

\* "self._hb_stop" inside _loop: the attribute is looked up at every test
StopEventSeen(i) == hb_stop

\* self._hb_stop.set(); self._hb_stop = threading.Event(); a new thread runs
\* _loop (base: the positions of the loops as the caller leaves them)
StartHeartbeatLoop(base) ==
    /\ \E k \in LoopIds :
        /\ hb_pc[k] = "free"
        /\ \A j \in LoopIds : hb_pc[j] = "free" => k <= j
        /\ hb_pc' = [base EXCEPT ![k] = "read"]
        /\ hb_born' = [hb_born EXCEPT ![k] = hb_stop + 1]
    /\ hb_set' = hb_set \cup {hb_stop}
    /\ hb_stop' = hb_stop + 1
    /\ heartbeat' = TRUE

\* connect() of the start-up: the session is created and the first heartbeat
\* is started
HbConnect ==
    /\ api = "none" /\ lock = "none" /\ ~closed /\ hb_stop = 0
    /\ api' = "up"
    /\ StartHeartbeatLoop(hb_pc)
    /\ UNCHANGED <<hb_ref, closed, rc_pc>>
    /\ UNCHANGED <<lock, candles_inflight, tsVars, pc, stack, loc, out>>
    /\ UNCHANGED notHb

\* a loop evaluates "self._hb_stop" (the while test or the test of the 1 s nap)
LoopRead(i) ==
    /\ hb_pc[i] = "read"
    /\ hb_ref' = [hb_ref EXCEPT ![i] = StopEventSeen(i)]
    /\ hb_pc' = [hb_pc EXCEPT ![i] = "isset"]
    /\ UNCHANGED <<hb_stop, hb_set, hb_born, closed, rc_pc>>
    /\ UNCHANGED iqVars
    /\ UNCHANGED notHb

\* ".is_set()" on the Event read: the loop ends, or naps on, or the 15 s are
\* over and the probe is next
LoopIsSet(i) ==
    /\ hb_pc[i] = "isset"
    /\ IF hb_ref[i] \in hb_set
       THEN hb_pc' = [hb_pc EXCEPT ![i] = "done"]
       ELSE \E n \in {"read", "probe"} : hb_pc' = [hb_pc EXCEPT ![i] = n]
    /\ UNCHANGED <<hb_stop, hb_set, hb_ref, hb_born, closed, rc_pc>>
    /\ UNCHANGED iqVars
    /\ UNCHANGED notHb

\* "if not self.api: continue"; check_connect() and get_balance(): a session
\* that serves both sends the loop back to the while test, any other takes the
\* loop into _ensure_connected (with self._lock)
LoopProbe(i) ==
    /\ hb_pc[i] = "probe"
    /\ IF api \in {"none", "up"}
       THEN /\ hb_pc' = [hb_pc EXCEPT ![i] = "read"]
            /\ UNCHANGED lock
       ELSE /\ lock = "none"
            /\ lock' = "hb"
            /\ hb_pc' = [hb_pc EXCEPT ![i] = "reconnect"]
    /\ UNCHANGED <<hb_stop, hb_set, hb_ref, hb_born, closed, rc_pc>>
    /\ UNCHANGED <<api, heartbeat, candles_inflight, tsVars, pc, stack, loc, out>>
    /\ UNCHANGED notHb

\* _ensure_connected called by a loop returns: a session found good is left
\* alone; a new session that was validated is followed by _start_heartbeat();
\* a failure leaves self.api None; then "continue"
LoopReconnected(i) ==
    /\ hb_pc[i] = "reconnect"
    /\ IF api = "up"
       THEN /\ hb_pc' = [hb_pc EXCEPT ![i] = "read"]
            /\ UNCHANGED <<api, heartbeat, hb_stop, hb_set, hb_born>>
       ELSE \/ /\ api' = "up"
               /\ StartHeartbeatLoop([hb_pc EXCEPT ![i] = "read"])
            \/ /\ api' = "none"
               /\ hb_pc' = [hb_pc EXCEPT ![i] = "read"]
               /\ UNCHANGED <<heartbeat, hb_stop, hb_set, hb_born>>
    /\ lock' = "none"
    /\ UNCHANGED <<hb_ref, closed, rc_pc>>
    /\ UNCHANGED <<candles_inflight, tsVars, pc, stack, loc, out>>
    /\ UNCHANGED notHb

HeartbeatLoop(i) == LoopRead(i) \/ LoopIsSet(i) \/ LoopProbe(i) \/ LoopReconnected(i)

\* the trading thread finds the session missing or dead and enters
\* _ensure_connected (get_candles, buy and execute_trade all start with it)
RcEnter ==
    /\ rc_pc = "idle"
    /\ hb_stop > 0
    /\ api # "up"
    /\ lock = "none"
    /\ lock' = "tr"
    /\ rc_pc' = "reconnect"
    /\ UNCHANGED <<hb_stop, hb_set, hb_pc, hb_ref, hb_born, closed>>
    /\ UNCHANGED <<api, heartbeat, candles_inflight, tsVars, pc, stack, loc, out>>
    /\ UNCHANGED notHb

\* _ensure_connected called by the trading thread returns
RcReconnected ==
    /\ rc_pc = "reconnect"
    /\ IF api = "up"
       THEN UNCHANGED <<api, heartbeat, hb_stop, hb_set, hb_pc, hb_born>>
       ELSE \/ /\ api' = "up"
               /\ StartHeartbeatLoop(hb_pc)
            \/ /\ api' = "none"
               /\ UNCHANGED <<heartbeat, hb_stop, hb_set, hb_pc, hb_born>>
    /\ lock' = "none"
    /\ rc_pc' = "idle"
    /\ UNCHANGED <<hb_ref, closed>>
    /\ UNCHANGED <<candles_inflight, tsVars, pc, stack, loc, out>>
    /\ UNCHANGED notHb

\* close(): self._hb_stop.set() and self.api.close_connect(); self.api keeps
\* the closed session
Close ==
    /\ ~closed
    /\ hb_stop > 0
    /\ closed' = TRUE
    /\ hb_set' = hb_set \cup {hb_stop}
    /\ api' = IF api = "none" THEN "none" ELSE "down"
    /\ UNCHANGED <<hb_stop, hb_pc, hb_ref, hb_born, rc_pc>>
    /\ UNCHANGED <<lock, heartbeat, candles_inflight, tsVars, pc, stack, loc, out>>
    /\ UNCHANGED notHb

InitHb ==
    /\ hb_stop = 0
    /\ hb_set = {}
    /\ hb_pc = [i \in LoopIds |-> "free"]
    /\ hb_ref = [i \in LoopIds |-> 0]
    /\ hb_born = [i \in LoopIds |-> 0]
    /\ closed = FALSE
    /\ rc_pc = "idle"

InitIQ ==
    /\ api = "none"
    /\ lock = "none"
    /\ heartbeat = FALSE
    /\ candles_inflight = {}
    /\ server_ts_inflight = FALSE
    /\ server_ts_thread = "none"
    /\ server_ts_cache = "none"
    /\ pc = [t \in Threads |-> IF t \in WorkerIds THEN "free" ELSE "idle"]
    /\ stack = [t \in Threads |-> <<>>]
    /\ loc = [t \in Threads |-> NoLoc]
    /\ out = [t \in Threads |-> "none"]

\* the handler just constructed, all three providers configured, the worker
\* loop about to start
Init == InitIQ /\ InitProviders(ProviderNames) /\ InitSch /\ InitGale /\ InitHb

CallGetCandles == \E t \in CallerIds, p \in CandlePairs, q \in BOOLEAN : GcCall(t, p, q)
StepGetCandles == \E t \in CallerIds : GetCandles(t)
StepFetch == \E w \in WorkerIds : Fetch(w)
StepEnsureConnected == \E t \in Threads : EnsureConnected(t)
StepEnsureConnectedQuick == \E t \in Threads : EnsureConnectedQuick(t)

NextCandles ==
    \/ CallGetCandles
    \/ StepGetCandles
    \/ StepFetch
    \/ StepEnsureConnected
    \/ StepEnsureConnectedQuick
    \/ SessionDrops

SpecCandles == Init /\ [][NextCandles]_vars

\* ------------------------------- specification: the running bot's handler
\* main's start-up thread, the heartbeat thread and the scheduler thread
StepBoot == BootCall("boot") \/ BootAfterConnect("boot") \/ Connect("boot")
StepHeartbeat == HbTick("hb")
StepFire ==
    \/ EtCall("tr") \/ ExecuteTrade("tr") \/ GetServerTimestamp("tr")
    \/ Buy("tr") \/ BuyWithTimeout("tr")
StepWorkers == \E w \in WorkerIds : FetchTs(w) \/ BuyThread(w)

Next ==
    \/ StepBoot
    \/ StepHeartbeat
    \/ StepFire
    \/ StepWorkers
    \/ StepEnsureConnected
    \/ StepEnsureConnectedQuick
    \/ SessionDrops
    \/ AgeCache

Spec == Init /\ [][Next]_vars

\* --------------------- specification: the three bounded calls of one thread
\* one thread uses get_candles, get_server_timestamp and buy in turn; a
\* broker call inside a worker may never come back, so no fairness is asked
\* of the workers; the caller's own bounded join always ends
StepBoundedCalls ==
    \/ \E p \in CandlePairs, q \in BOOLEAN : SessionStarted /\ GcCall("c1", p, q)
    \/ TickCall("c1") \/ TickAfterTs("c1")
    \/ (SessionStarted /\ BuyCall("c1")) \/ BuyDone("c1")
    \/ GetCandles("c1") \/ GetServerTimestamp("c1")
    \/ Buy("c1") \/ BuyWithTimeout("c1")
StepAllWorkers == \E w \in WorkerIds : Fetch(w) \/ FetchTs(w) \/ BuyThread(w)

NextBounded ==
    \/ StepBoot
    \/ StepBoundedCalls
    \/ StepAllWorkers
    \/ StepEnsureConnected
    \/ StepEnsureConnectedQuick
    \/ SessionDrops
    \/ AgeCache

SpecBounded ==
    /\ Init
    /\ [][NextBounded]_vars
    /\ WF_vars(GcJoin("c1"))
    /\ WF_vars(TsJoin("c1"))
    /\ WF_vars(BtJoin("c1"))

\* ---------------------------------------------- specification: provider pool
\* analyze_signal requests, one at a time, over any set of configured providers
NextAI == AnalyzeSignal

InitAI == \E c \in SUBSET ProviderNames : InitIQ /\ InitProviders(c) /\ InitSch /\ InitGale /\ InitHb

SpecAI == InitAI /\ [][NextAI]_vars

\* ------------------------------------------------ specification: the cache
\* three requests in a row to a pool of one provider, made at once, or just
\* before or at the moment an entry of the cache expires
MaxCacheRequests == 3
CacheGaps == {0, CACHE_TTL - 2, CACHE_TTL - 1, CACHE_TTL}

InitCache == InitIQ /\ InitProviders({"openrouter"}) /\ InitSch /\ InitGale /\ InitHb

CachedRequest ==
    /\ requests < MaxCacheRequests
    /\ \E signal \in Signals, gap \in CacheGaps : AnEnter(signal, gap)

NextCache == CachedRequest \/ AnLoop

SpecCache == InitCache /\ [][NextCache]_vars

\* ------------------------------------------ specification: provider selection
\* the selection applied to provider states a running pool can be in: any set
\* of configured providers, cooldowns that are unset, over, ending now or
\* pending, and error counts below, at and above the limit (a provider that
\* never failed has no cooldown)
CooldownInputs == {0, 49, 50, 80}
ErrorInputs == {0, 2, 3, 4}

InitSelect ==
    /\ InitIQ /\ InitSch /\ InitGale /\ InitHb
    /\ now = 50
    /\ \E c \in SUBSET ProviderNames :
        providers \in [c -> {cfg \in [priority : {1, 2, 3}, cooldown_until : CooldownInputs,
                                      consecutive_errors : ErrorInputs,
                                      total_calls : {0}, rate_limit_hits : {0}] :
                                cfg.consecutive_errors > 0 => cfg.cooldown_until > 0}]
    /\ \A n \in DOMAIN providers : providers[n].priority = ProviderPriority[n]
    /\ cache = [s \in Signals |-> NoEntry]
    /\ last_analysis_time = 0
    /\ current_provider = "none"
    /\ requests = 1
    /\ ai_pc = "an_select"
    /\ ai_loc = [NoRequest EXCEPT !.signal = "CALL"]
    /\ ai_out = NoResult

NextSelect == AnSelect

SpecSelect == InitSelect /\ [][NextSelect]_vars

\* -------------------------------------------------- specification: scheduler
\* the worker loop of run_trading_session against the broker's clock
NextSch == Worker \/ SchClock

SpecSch == Init /\ [][NextSch]_vars

\* ------------------------------------- specification: the heartbeat loops
\* the start-up connect, the heartbeat loops, a trading thread that reconnects,
\* the remote side dropping the session, and close()
StepLoops == \E i \in LoopIds : HeartbeatLoop(i)

NextHb ==
    \/ HbConnect
    \/ StepLoops
    \/ RcEnter
    \/ RcReconnected
    \/ SessionDrops
    \/ Close

SpecHb == Init /\ [][NextHb]_vars

\* ------------------- specification: the worker loop with a refusing broker
\* as SpecSch, and the broker may refuse the order of a fire
NextRefusals == Worker \/ SchRefused \/ SchClock

SpecRefusals == Init /\ [][NextRefusals]_vars

\* ------------------------------------------------ specification: martingale
\* one thread inside execute_trade after its first order opened, and the clock
NextGale == ExecuteTradeOpened \/ FirstSettled \/ ExecuteMartingale \/ GaleClock

SpecGale == Init /\ [][NextGale]_vars

\* the thread inside execute_trade keeps running, check_win returns, and time
\* passes
SpecGaleFair ==
    /\ SpecGale
    /\ WF_vars(FirstSettled)
    /\ WF_vars(ExecuteMartingale)
    /\ WF_vars(GaleClock)

\* ==================================================================== claims
CandleWorkers(p) == {w \in WorkerIds : Alive(w) /\ loc[w].kind = "candles" /\ loc[w].pair = p}
CandleCalls(p) == {w \in CandleWorkers(p) : pc[w] = "fw_incall"}

\* a get_candles caller that is held up before its in-flight check: asleep in
\* the reconnect backoff, or waiting for the reconnection lock
HeldUp(t) ==
    \/ pc[t] = "ec_sleep"
    \/ pc[t] = "ec_enter" /\ lock \notin {"none", t}

AtMostOneFetch ==
    \A p \in CandlePairs : Cardinality(CandleWorkers(p)) <= 1 /\ Cardinality(CandleCalls(p)) <= 1

\* a caller that finds the pair in flight returns Busy in that step and no
\* thread is started
BusyStartsNothing ==
    \A t \in CallerIds :
        (pc[t] = "gc_inflight" /\ loc[t].pair \in candles_inflight /\ pc'[t] # pc[t])
            => /\ pc'[t] = "idle" /\ out'[t] = "empty_busy"
               /\ \A w \in WorkerIds : pc'[w] = pc[w]
               /\ candles_inflight' = candles_inflight

\* C1 as stated: at most one fetch worker and one underlying fetch per pair,
\* and every call made while the pair's fetch is running comes back at once,
\* never held up before its Busy answer.
C1_Original ==
    /\ AtMostOneFetch
    /\ \A t \in CallerIds : loc[t].busy0 => ~HeldUp(t)

\* C1 as amended: at most one fetch worker and one underlying fetch per pair;
\* a call that reaches the in-flight check while the pair is in flight returns
\* Busy and starts no worker; a call with connect_timeout_s goes straight to
\* that check, a call without it runs _ensure_connected first.
C1_AtMostOneInFlight ==
    /\ [](AtMostOneFetch
           /\ \A t \in CallerIds : (loc[t].busy0 /\ loc[t].quick) => ~HeldUp(t))
    /\ [][BusyStartsNothing]_vars

\* a fetch is inside the broker call while the other caller was answered Busy
C1_Witness ==
    \E p \in CandlePairs : \E t \in CallerIds :
        /\ Cardinality(CandleCalls(p)) = 1
        /\ pc[t] = "idle" /\ out[t] = "empty_busy"

\* C2 as stated: whenever get_candles returns to its caller (candles, empty,
\* or deadline expired) the pair is no longer in the in-flight set.
C2_Original ==
    [][\A t \in CallerIds :
          (pc[t] = "gc_join" /\ pc'[t] = "idle") => loc[t].pair \notin candles_inflight']_vars

\* C2 as amended: the lease belongs to the worker: a pair is in the in-flight
\* set exactly while a fetch worker for it is alive, whatever way the worker
\* ends; a caller whose deadline expired returns while the lease is still held.
C2_LeaseIffWorker ==
    \A p \in CandlePairs : (p \in candles_inflight) <=> (CandleWorkers(p) # {})

\* a worker has ended on its failure path and the lease is free again, while
\* its caller has not yet come back from join
C2_Witness ==
    \E t \in CallerIds :
        /\ pc[t] = "gc_join" /\ pc[loc[t].kid] = "done" /\ loc[loc[t].kid].res # "data"
        /\ loc[t].pair \notin candles_inflight

\* C3: a caller waiting in the bounded join of get_candles, get_server_timestamp
\* or _buy_with_timeout always comes back, also when the broker call inside
\* the worker never returns; coming back with the worker still alive yields
\* the timeout result and leaves the worker running, abandoned.
C3_TimeoutResult ==
    /\ (pc["c1"] = "gc_join" /\ pc'["c1"] # "gc_join" /\ pc'[loc["c1"].kid] \notin {"free", "done"})
          => (out'["c1"] = "empty_timeout"
              /\ pc'[loc["c1"].kid] = pc[loc["c1"].kid] /\ loc'[loc["c1"].kid].abandoned)
    /\ (pc["c1"] = "bt_join" /\ pc'["c1"] # "bt_join" /\ pc'[loc["c1"].kid] \notin {"free", "done"})
          => (~loc'["c1"].ret /\ loc'["c1"].res = "timeout"
              /\ pc'[loc["c1"].kid] = pc[loc["c1"].kid] /\ loc'[loc["c1"].kid].abandoned)
    /\ (pc["c1"] = "ts_join" /\ pc'["c1"] # "ts_join" /\ pc'[loc["c1"].kid] \notin {"free", "done"})
          => (loc'["c1"].res = CacheOrLocal
              /\ pc'[loc["c1"].kid] = pc[loc["c1"].kid] /\ loc'[loc["c1"].kid].abandoned)

C3_DeadlineRespected ==
    /\ (pc["c1"] = "gc_join") ~> (pc["c1"] # "gc_join")
    /\ (pc["c1"] = "ts_join") ~> (pc["c1"] # "ts_join")
    /\ (pc["c1"] = "bt_join") ~> (pc["c1"] # "bt_join")
    /\ [][C3_TimeoutResult]_vars

\* the caller is back with the timeout result of buy while two abandoned
\* workers are still inside their broker calls
C3_Witness ==
    /\ pc["c1"] = "idle" /\ out["c1"] = "timeout"
    /\ \E w \in WorkerIds : pc[w] = "bw_incall" /\ loc[w].abandoned
    /\ \E w \in WorkerIds : pc[w] \in {"fw_incall", "tw_incall"} /\ loc[w].abandoned

\* C5: at most one thread is inside a session-creating section (connect,
\* _ensure_connected, the reconnect part of _ensure_connected_quick), and that
\* thread holds the reconnection lock.
InSection(t) == pc[t] \in {"cn_try", "ec_check", "ec_sleep", "eq_try"}

C5_OneReconnect ==
    /\ Cardinality({t \in Threads : InSection(t)}) <= 1
    /\ \A t \in Threads : InSection(t) => lock = t

\* the heartbeat sleeps in its backoff while the scheduler thread waits at the
\* lock of the quick path
C5_Witness == pc["hb"] = "ec_sleep" /\ pc["tr"] = "eq_lock"

\* C6 as stated: from the fire decision to the order submission the firing
\* thread never waits for the reconnection lock.
BeforeSubmission(t) ==
    /\ Len(stack[t]) > 0
    /\ stack[t][Len(stack[t])] \in {"et_after_ec", "et_after_ts0", "et_after_ts", "et_after_buy"}
    /\ loc[t].oattempt <= 1 /\ loc[t].attempt = 0
    /\ \A i \in 1..Len(stack[t]) : stack[t][i] # "buy_after_ec"

C6_FiringNeverWaitsOnLock ==
    ~(BeforeSubmission("tr") /\ pc["tr"] \in {"ec_enter", "eq_lock"}
        /\ lock \notin {"none", "tr"})

RateLimitedSoFar ==
    /\ ai_loc.eligible0 = ProviderNames
    /\ ai_loc.rate_limited = Len(ai_loc.tried)
    /\ \A k \in 1..Len(ai_loc.tried) : ai_loc.tried[k] = ProviderOrder[k]

C7_NextByPriority ==
    (ai_pc = "an_select" /\ RateLimitedSoFar /\ Len(ai_loc.tried) \in {1, 2})
        => /\ GetBestProvider = ProviderOrder[Len(ai_loc.tried) + 1]
           /\ ai_loc.i < Cardinality(DOMAIN providers)
           /\ \A k \in 1..Len(ai_loc.tried) : providers[ai_loc.tried[k]].cooldown_until > now

C7_ThirdDecides ==
    (/\ ai_pc = "an_call" /\ ai_pc' = "idle"
     /\ ai_loc.eligible0 = ProviderNames /\ ai_loc.rate_limited = 2
     /\ ai_loc.tried = ProviderOrder)
        => /\ ai_out'.reason = "provider" /\ current_provider' = "gemini"
           /\ cache'[ai_loc.signal].confidence = ai_out'.confidence
           /\ providers'["openrouter"].cooldown_until > now'
           /\ providers'["groq"].cooldown_until > now'

C7_Failover == [](C7_NextByPriority) /\ [][C7_ThirdDecides]_vars

\* the first request was answered by the third provider after two rate-limit
\* failures, and the two are in cooldown
C7_Witness ==
    /\ requests = 1 /\ ai_pc = "idle"
    /\ DOMAIN providers = ProviderNames
    /\ ai_out.reason = "provider" /\ current_provider = "gemini"
    /\ providers["openrouter"].rate_limit_hits = 1 /\ providers["openrouter"].cooldown_until > now
    /\ providers["groq"].rate_limit_hits = 1 /\ providers["groq"].cooldown_until > now

\* C8 as stated: a request that finds every provider in cooldown returns the
\* smart fallback: a confirmation with a confidence in 50..100.
C8_FallbackWhenAllInCooldown ==
    [][(ai_pc \in {"an_call", "an_fallback"} /\ ai_pc' = "idle" /\ ai_loc.cooldown0)
          => /\ ai_out'.reason = "fallback" /\ ai_out'.confirm
             /\ ai_out'.confidence \in 50..100]_vars

\* C9 as stated: a failed call sets cooldown_until to now + 60 on a rate-limit
\* indicator (429, quota, rate, resource exhausted), to now + 3600 on an auth
\* indicator (401, 403, unauthorized, invalid api key), to now + 30 otherwise.
CallRaised ==
    /\ ai_pc = "an_call"
    /\ providers'[ai_loc.provider].consecutive_errors
            = providers[ai_loc.provider].consecutive_errors + 1

C9_Original ==
    [][CallRaised =>
          LET m == ai_loc'.error_msg
              until == providers'[ai_loc.provider].cooldown_until
              rate == m \cap {"429", "quota", "rate", "resource_exhausted"} # {}
              auth == m \cap {"401", "403", "unauthorized", "invalid key", "api key"} # {}
          IN /\ rate => until = now' + 60
             /\ auth => until = now' + 3600
             /\ (~rate /\ ~auth) => until = now' + 30]_vars

\* C9 as amended: the rate-limit test comes first and its indicators are rate,
\* 429, quota, limit, too many, resource_exhausted, throttl: such an error sets
\* now + 60 even when it also carries an auth indicator; an error with none of
\* them and with an auth indicator (401, 403, unauthorized, invalid key, api
\* key) sets now + 3600; any other error sets now + 30.
C9_CooldownByKind ==
    [][CallRaised =>
          LET m == ai_loc'.error_msg
              until == providers'[ai_loc.provider].cooldown_until
              rate == m \cap {"rate", "429", "quota", "limit", "too many",
                              "resource_exhausted", "throttl"} # {}
              auth == m \cap {"401", "403", "unauthorized", "invalid key", "api key"} # {}
          IN /\ rate => until = now' + 60
             /\ (~rate /\ auth) => until = now' + 3600
             /\ (~rate /\ ~auth) => until = now' + 30]_vars

\* a call failed with an error that carries 403 and "limit", and the provider
\* is in cooldown for 60 s
C9_Witness ==
    /\ ai_pc = "an_select" /\ ai_loc.error_msg = {"403", "limit"}
    /\ providers[ai_loc.provider].cooldown_until = now + 60

\* C10: the selection returns, among the providers with cooldown_until < now
\* and consecutive_errors < 3, the one with the smallest (priority,
\* consecutive_errors); when there is none, the provider with the smallest
\* cooldown_until; none only when no provider is configured; and the provider
\* the loop calls first is that selection.
Qualifying ==
    {n \in DOMAIN providers :
        providers[n].cooldown_until < now /\ providers[n].consecutive_errors < 3}

C11_CalledAtMostOnce ==
    /\ \A j, k \in 1..Len(ai_loc.tried) : ai_loc.tried[j] = ai_loc.tried[k] => j = k
    /\ Len(ai_loc.tried) <= Cardinality(DOMAIN providers)
    /\ ai_pc = "an_call" => ai_loc.tried[Len(ai_loc.tried)] = ai_loc.provider

\* the loop has iterations left and the selection returns a provider already
\* called in this request (it answered with an empty text, or every provider is
\* in cooldown): the request ends without calling it again
C11_Witness ==
    /\ ai_pc = "an_select"
    /\ ai_loc.i < Cardinality(DOMAIN providers)
    /\ AlreadyTried(GetBestProvider)

\* C12 as stated: a request for a signal made (now + gap) less than 30 s after
\* the validation that cached it is answered from the cache without a provider
\* call, and an entry whose age has reached 30 s is never returned.
C12_Original ==
    [][\A signal \in Signals, gap \in CacheGaps :
          AnEnter(signal, gap) =>
              /\ (cache[signal].present /\ (now + gap) - cache[signal].timestamp < 30)
                     => (ai_pc' = "idle" /\ ai_out'.reason = "cache")
              /\ ai_out'.reason = "cache"
                     => (cache[signal].present /\ now' - cache[signal].timestamp < 30)]_vars

\* C12 as amended: the age of the entry is taken at the lookup, which comes
\* after the min_interval sleep (now' is the time of the lookup). The request is
\* answered from the cache, with the cached confidence and without a provider
\* call, exactly when the entry is less than 30 s old at the lookup; this is the
\* case of every request made early enough for the sleep (1.5 s, two ticks of
\* the clock of whole seconds) to end before the entry expires.
C12_CacheByAgeAtLookup ==
    [][\A signal \in Signals, gap \in CacheGaps :
          AnEnter(signal, gap) =>
              LET fresh == cache[signal].present /\ now' - cache[signal].timestamp < 30
                  hit == /\ ai_pc' = "idle"
                         /\ ai_out' = [confirm |-> TRUE, confidence |-> cache[signal].confidence,
                                       reason |-> "cache"]
              IN /\ fresh <=> hit
                 /\ ai_out'.reason = "cache" => fresh
                 /\ (cache[signal].present /\ (now + gap) + 2 - cache[signal].timestamp < 30)
                        => hit]_vars

\* a request was answered from an entry that was 29 s old at the lookup
C12_Witness ==
    /\ ai_pc = "idle" /\ ai_out.reason = "cache"
    /\ \E signal \in Signals :
          /\ cache[signal].present /\ cache[signal].confidence = ai_out.confidence
          /\ now - cache[signal].timestamp = 29

\* C13: when the poll of the arm window has reached the target candleEnd - 1,
\* the clock is read again; if that time is more than 5 s past the target, or is
\* not a valid time, the candidate is dropped, execute_trade is not called for
\* it and the worker is back at the head of the loop with no candidate.
C13_MissedWindowDrops ==
    [][\A r \in ServerReads :
          LET target_turn == sch_loc.candle_end - 1 IN
          (SchArmedRead(r.ts) /\ (r.ts <= 0 \/ r.ts - target_turn > 5))
              => /\ sch_pc' = "tick" /\ sch_loc'.sleep = 0
                 /\ cached_signal' = "none"
                 /\ fired'[sch_loc.current_candle].fires = fired[sch_loc.current_candle].fires
                 /\ fired'[sch_loc.current_candle].opened = fired[sch_loc.current_candle].opened]_vars

\* the clock read after the poll was at target + 6 s: the candidate of a candle
\* that had not fired was dropped
C13_Witness ==
    \E c \in CandleStarts :
        /\ fired[c].late /\ fired[c].fires = 0
        /\ stime = (c + CandleDuration - 1) + 6
        /\ sch_pc = "tick" /\ cached_signal = "none"

\* C14: the candidate a fire uses was returned by the signal search during the
\* candle that fires, never during an earlier candle.
C14_CandidateOfSameCandle ==
    sch_pc = "execute" => signal_candle >= sch_loc.current_candle


\* C15: after a fire whose order did not open, the pair is in the blacklist of
\* the candle, the candidate is dropped, the candle is not marked as traded and
\* the worker is back at its tick to search again; after a fire whose order
\* opened, the candle is marked as traded and the candidate is dropped.
C15_AfterFire ==
    [][/\ SchNotOpened
            => /\ cached_signal \in failed_pairs_this_candle'
               /\ cached_signal' = "none"
               /\ last_candle_traded' = last_candle_traded
               /\ sch_pc' = "tick" /\ sch_loc'.sleep = 0
       /\ (SchOpened \/ SchBalanceRaised)
            => /\ last_candle_traded' = sch_loc.current_candle
               /\ cached_signal' = "none"]_vars

\* C16: a signal search excludes only pairs whose order did not open in the
\* candle of the search: a pair blacklisted in an earlier candle has been
\* cleared before the first search of any later candle.
C16_BlacklistOfThisCandle ==
    sch_pc = "analyze"
        => \A p \in failed_pairs_this_candle : failed_in[p] >= sch_loc.current_candle

\* C17: the time on which the worker computed the window, armed or fired came
\* from the broker (fresh or cached), never from the local clock.
C17_BrokerTimeOnly ==
    sch_pc \in {"analyze", "poll", "execute"} => sch_loc.source = "broker"

C19_LadderBounded ==
    /\ [](placed <= martingale_levels /\ Len(results) <= 1 + martingale_levels)
    /\ (gale_pc = "sync" /\ level = 0) ~> (gale_pc = "returned")
C19_Witness ==
    /\ gale_pc = "returned"
    /\ placed = martingale_levels
    /\ Len(results) = 1 + martingale_levels
    /\ \A k \in 1..Len(results) : results[k] < 0

\* C20: the thread is inside a level of the ladder only when the last settled
\* order of this execute_trade, the first order or the previous gale, settled
\* as a loss (negative result).
C20_LevelOnlyAfterLoss ==
    gale_pc \in {"sync", "wait", "recheck", "buy", "check"}
        => Len(results) >= 1 /\ results[Len(results)] < 0

\* C21: a gale order is opened only from the re-check of the clock; when the
\* first read of a level is more than 5 s into a candle the ladder waits, and
\* leaves the wait only on a read that has reached the next turn; when the
\* re-read clock is neither in the first 5 s nor in the last 2 s of a candle
\* the ladder returns without opening an order.
C21_GaleAtCandleBoundary ==
    [][/\ \A r \in ServerReadsAt(CandleDuration + (gtime % CandleDuration)) :
            (GaleSync(r) /\ r.source # "none" /\ r.ts % (Timeframe * 60) > 5)
                => /\ gale_pc' = "wait"
                   /\ target' = r.ts - (r.ts % (Timeframe * 60)) + Timeframe * 60
       /\ \A r \in ServerReadsAt(gtime) :
            (GaleWaitPoll(r) /\ gale_pc' = "recheck") => r.ts >= target
       /\ \A r \in ServerReadsAt(gtime) :
            (/\ GaleRecheck(r) /\ r.source # "none"
             /\ r.ts % (Timeframe * 60) > 5
             /\ r.ts % (Timeframe * 60) < Timeframe * 60 - 2)
                => gale_pc' = "returned" /\ placed' = placed
       /\ placed' > placed => gale_pc = "buy"
       /\ (gale_pc' = "buy" /\ gale_pc # "buy") => gale_pc = "recheck"]_vars
C21_Witness ==
    /\ gale_pc = "recheck"
    /\ results = <<-1>>
    /\ target = 2 * CandleDuration
    /\ gtime >= target
    /\ gtime <= target + ENTRY_WINDOW

\* C22: a thread in the backoff sleep of the n-th attempt of _ensure_connected
\* (n = 1, 2, 3) has torn the old session down, has not yet created the new
\* one, and sleeps exactly 5 * n seconds.
C22_BackoffFiveTimesN ==
    \A t \in Threads :
        pc[t] = "ec_sleep"
            => LET n == loc[t].cattempt + 1
               IN n \in {1, 2, 3} /\ loc[t].wait = 5 * n /\ api = "none"
C22_Witness ==
    \E t \in Threads :
        pc[t] = "ec_sleep" /\ loc[t].cattempt + 1 = 3 /\ loc[t].wait = 15

\* C23: an attempt of _ensure_connected that finds the session alive and
\* serving the secondary read returns True at once and changes nothing: the
\* session is kept, no backoff sleep is entered and no heartbeat is started.
C23_GoodSessionUntouched ==
    [][\A t \in Threads :
        (EcCheck(t) /\ api = "up")
            => /\ api' = api
               /\ heartbeat' = heartbeat
               /\ pc'[t] \notin {"ec_check", "ec_sleep"}
               /\ loc'[t].ret = TRUE /\ loc'[t].wait = 0
               /\ lock' = "none"]_vars
C23_Witness ==
    \E t \in Threads :
        /\ pc[t] = "gc_after_ec" /\ loc[t].ret = TRUE
        /\ api = "up" /\ heartbeat = FALSE

\* C24: when _ensure_connected returns True, the session in place at the return
\* is one on which the secondary read of this call succeeded: it is alive and
\* serves reads, never a fresh session that connected and failed the read.
C24_TrueOnlyAfterRead ==
    [][\A t \in Threads :
        (/\ pc[t] \in {"ec_check", "ec_sleep"}
         /\ pc'[t] \notin {"ec_check", "ec_sleep"}
         /\ loc'[t].ret = TRUE)
            => api' = "up"]_vars
C24_Witness ==
    \E t \in Threads :
        /\ pc[t] = "gc_after_ec" /\ loc[t].ret = TRUE
        /\ api = "up" /\ heartbeat = TRUE

C27_HeartbeatTriggers ==
    /\ []((pc["hb"] = "idle" /\ heartbeat /\ api \in {"down", "halfopen"})
            => ENABLED HbTick("hb"))
    /\ [][(pc["hb"] = "idle" /\ pc'["hb"] # "idle")
            => /\ heartbeat /\ api \in {"down", "halfopen"}
               /\ pc'["hb"] = "ec_enter" /\ api' = api]_vars
C27_Witness ==
    pc["hb"] = "ec_enter" /\ api = "halfopen" /\ heartbeat

\* C28: a thread inside _ensure_connected_quick, whose deadline is
\* connect_timeout_s = 2 s after its entry, is never held at "with self._lock"
\* by a thread that sleeps the backoff of the standard path (5 s or more) with
\* the lock.
C28_QuickNeverBehindBackoff ==
    \A t, u \in Threads :
        ~(/\ pc[t] = "eq_lock"
          /\ lock = u /\ pc[u] = "ec_sleep"
          /\ loc[u].wait > TS_CONNECT_TIMEOUT)

\* C29: whatever the broker call inside the worker did, raising included, the
\* caller of get_candles gets candles or [], the caller of
\* get_server_timestamp gets the server's time, the cached time or the local
\* clock, and the caller of _buy_with_timeout gets the order or (False, reason);
\* a worker whose call raised never yields candles, the server's time or an
\* order.
C29_SentinelNotException ==
    [][LET w == loc["c1"].kid IN
       /\ (pc["c1"] = "gc_join" /\ pc'["c1"] # "gc_join")
            => /\ out'["c1"] \in {"candles", "empty_result", "empty_timeout"}
               /\ loc[w].res # "data" => out'["c1"] # "candles"
       /\ (pc["c1"] = "ts_join" /\ pc'["c1"] # "ts_join")
            => /\ loc'["c1"].res \in {"server", "cache", "local"}
               /\ loc[w].res # "ts" => loc'["c1"].res # "server"
       /\ (pc["c1"] = "bt_join" /\ pc'["c1"] # "bt_join")
            => /\ loc'["c1"].ret = (loc'["c1"].res = "order")
               /\ loc'["c1"].res \in {"order", "conn", "other", "timeout", "none"}
               /\ loc[w].res # "order" => ~loc'["c1"].ret]_vars
C29_Witness ==
    /\ pc["c1"] \notin {"bt_join", "idle"}
    /\ loc["c1"].res = "conn" /\ ~loc["c1"].ret
    /\ loc["c1"].kid = "none"

\* C30: an exception in an iteration of the worker loop does not end the loop:
\* a clock read that raised makes the tick sleep 1 s and come back, the
\* balance refresh that raised after a trade makes the handler sleep 2 s and
\* come back; the loop ends only when the profit goal or the stop loss is
\* reached.
C30_LoopSurvivesExceptions ==
    [][/\ (sch_pc # "stopped" /\ sch_pc' = "stopped")
            => /\ sch_pc = "tick"
               /\ \/ (ProfitGoal > 0 /\ current_profit >= ProfitGoal)
                  \/ current_profit <= -StopLoss
       /\ SchBalanceRaised => (sch_pc' = "tick" /\ sch_loc'.sleep = 2)
       /\ \A r \in ServerReads :
            (SchTickRead(r) /\ r.source = "none")
                => (sch_pc' = "tick" /\ sch_loc'.sleep = 1)]_vars
C30_Witness ==
    /\ sch_pc = "tick" /\ sch_loc.sleep = 2
    /\ cached_signal # "none"
    /\ \E c \in CandleStarts : fired[c].opened >= 1 /\ last_candle_traded # c

\* C31: the second attempt of the fetch worker of get_candles reaches the
\* broker call, and no attempt beyond the second is made.
C31_SecondAttemptFetches ==
    [][\A w \in WorkerIds :
        /\ (FwTry(w) /\ loc[w].attempt = 1) => pc'[w] = "fw_incall"
        /\ pc'[w] = "fw_try" => loc'[w].attempt + 1 <= 2]_vars

\* ----------------------- specification: concurrent readers of the clock
\* two threads (the scheduler and the panel) read the broker clock while the
\* session may drop; a timestamp call inside a worker may never come back
StepClockReaders ==
    \E t \in CallerIds : TickCall(t) \/ TickAfterTs(t) \/ GetServerTimestamp(t)
StepTsWorkers == \E w \in WorkerIds : FetchTs(w)

NextTs ==
    \/ StepBoot
    \/ StepClockReaders
    \/ StepTsWorkers
    \/ StepEnsureConnectedQuick
    \/ SessionDrops
    \/ AgeCache

SpecTs == Init /\ [][NextTs]_vars

\* the timestamp workers that are running or hung
TsWorkers == {w \in WorkerIds : Alive(w) /\ loc[w].kind = "ts"}

\* C32: never more than one timestamp worker is alive; a get_server_timestamp
\* call that finds one alive starts no worker and returns the cache (at most
\* 10 s old) or the local clock; a call that finds the cache younger than
\* 200 ms returns it and starts nothing.
C32_OneTimestampWorker ==
    [][/\ Cardinality(TsWorkers') <= 1
       /\ \A t \in Threads :
            (TsEnter(t) /\ (TsThreadAlive \/ server_ts_cache = "fresh")) =>
                /\ TsWorkers' = TsWorkers
                /\ pc'[t] # "eq_enter"
                /\ loc'[t].res = IF server_ts_cache = "fresh" THEN "cache"
                                 ELSE IF server_ts_cache = "recent" THEN "cache"
                                 ELSE "local"]_vars

\* one reader timed out on a worker that is still hung, and the other reader
\* has been answered with the local clock (the cache is older than 10 s)
\* while it started no second worker
C32_Witness ==
    /\ \A t \in CallerIds : pc[t] = "tick_after_ts" /\ loc[t].res = "local"
    /\ TsThreadAlive
    /\ loc[server_ts_thread].abandoned
    /\ Cardinality(TsWorkers) = 1
    /\ \A w \in WorkerIds \ TsWorkers : pc[w] = "free"
    /\ server_ts_cache = "stale"
    /\ ~server_ts_inflight

\* C33: each signal search lowers by one the cooldown counter of every pair
\* that has one, so that a pair set to 2 candles is searched again.
C33_CooldownDecremented ==
    [][SchAnalyzed =>
        \A p \in Pairs : pair_cooldown[p] > 0 => pair_cooldown'[p] = pair_cooldown[p] - 1]_vars

\* C34: every provider that analyze_signal goes on to call has a cooldown_until
\* that lies in the past at the moment of the call.
C34_CalledOutOfCooldown ==
    [][(ai_pc = "an_select" /\ ai_pc' = "an_call")
          => providers[ai_loc'.provider].cooldown_until < now]_vars

\* C35: a heartbeat loop started by an earlier _start_heartbeat ends at its
\* next look at the stop event, so that only the loop of the last
\* _start_heartbeat keeps running.
C35_OlderLoopStops ==
    [][\A i \in LoopIds :
        (LoopIsSet(i) /\ hb_born[i] # hb_stop) => hb_pc'[i] = "done"]_vars

\* C38: once close() has been called no session is created and no heartbeat
\* is started, and every heartbeat loop ends at its next look at the stop
\* event.
C38_ClosedStaysClosed ==
    [][closed =>
        /\ api' = "up" => api = "up"
        /\ hb_stop' = hb_stop
        /\ \A i \in LoopIds : hb_pc[i] = "free" => hb_pc'[i] = "free"
        /\ \A i \in LoopIds : LoopIsSet(i) => hb_pc'[i] = "done"]_vars

\* C36: within one fire no order is submitted after a submission that timed
\* out, so that a fire never has two submissions that can both open an order.
C36_OneOrderPerFire ==
    [][\A t \in Threads : BtEnter(t) => loc[t].res # "timeout"]_vars

\* C37: self.api is created, replaced or cleared only while the reconnection
\* lock is held.
C37_SessionWrittenUnderLock ==
    [][(api' # api /\ api' \in {"none", "up"}) => lock # "none"]_vars

\* the session profit settled so far, in units of the first stake: what the
\* worker has accumulated plus the results of the ladder in progress, each
\* gale order counted as one stake (its stake is 2.2 times the one before, so
\* a real loss is never smaller)
RECURSIVE SumSeq(_)
SumSeq(s) == IF s = <<>> THEN 0 ELSE Head(s) + SumSeq(Tail(s))

SettledProfit == current_profit + SumSeq(results)

\* "VERIFICAR LIMITES" applied to the settled profit
LimitReached ==
    \/ ProfitGoal > 0 /\ SettledProfit >= ProfitGoal
    \/ SettledProfit <= -StopLoss

\* C39: no order of a martingale ladder is placed once the settled session
\* profit has reached the profit goal or has fallen to the stop loss.
C39_NoOrderPastLimit ==
    [][placed' > placed => ~LimitReached]_vars

\* C40: a request answered from the cache entry that the validation just
\* returned has written gets the decision of that validation: a rejected
\* (pair, signal) is not confirmed from the cache.
C40_CacheHitSameDecision ==
    [][\A signal \in Signals, gap \in CacheGaps :
        ( /\ AnEnter(signal, gap)
          /\ ai_out'.reason = "cache"
          /\ ai_out.reason = "provider"
          /\ cache[signal].timestamp = last_analysis_time )
            => ai_out'.confirm = ai_out.confirm]_vars
====
